---- MODULE Spec2Model ----
(***************************************************************************)
(* The handle registries, the ownership hierarchy (instance, surface,      *)
(* device, swapchain, device resources) and the command-encoding entry     *)
(* points of kreekt-gpu-android-native/src/main/cpp/vulkan_bridge.cpp.     *)
(*                                                                         *)
(* Every std::unordered_map of the source is a function from handle to a   *)
(* record; the maps nested in VulkanInstance, VulkanSurface and            *)
(* VulkanDevice are kept flat, each entry naming its owner.  The Vulkan    *)
(* objects behind the handles are the set backend; calls is the sequence   *)
(* of backend calls the last entry point made.  g_registryMutex is the     *)
(* thread that holds the registry lock, 0 when it is free, and threads the *)
(* call stack of each thread that is inside an entry point.                *)
(***************************************************************************)
EXTENDS Integers, Sequences, FiniteSets, TLC

VARIABLES g_nextId, g_instances, surfaces, devices, swapchains,
          buffers, shaderModules, samplers, textures, textureViews,
          bindGroupLayouts, bindGroups, pipelineLayouts, renderPipelines,
          commandEncoders, commandBuffers, renderPassEncoders,
          backend, calls, faults, leaked, issued, budget, last,
          g_registryMutex, threads

vars == <<g_nextId, g_instances, surfaces, devices, swapchains,
          buffers, shaderModules, samplers, textures, textureViews,
          bindGroupLayouts, bindGroups, pipelineLayouts, renderPipelines,
          commandEncoders, commandBuffers, renderPassEncoders,
          backend, calls, faults, leaked, issued, budget, last,
          g_registryMutex, threads>>

---------------------------------------------------------------------------
(* Bounds of the model. *)

\* handles one run may issue
MaxId == 5
\* images the backend may report for one swapchain
MaxImages == 1
\* live instances at one time
MaxInstances == 2

\* handles a run that starts from the scene may issue after it
MaxSceneId == 3
\* handles a run that starts from a device with resources may issue after it
MaxDevId == 1
\* handles a run that starts from a device ready to draw may issue after it
MaxUseId == 1

---------------------------------------------------------------------------
(* Generic helpers. *)

Range(q) == {q[i] : i \in DOMAIN q}

Drop(f, K) == [x \in DOMAIN f \ K |-> f[x]]

RECURSIVE Sorted(_)
\* the elements of a finite set of numbers, ascending
Sorted(S) ==
    IF S = {} THEN <<>>
    ELSE LET m == CHOOSE x \in S : \A y \in S : x <= y
         IN <<m>> \o Sorted(S \ {m})

---------------------------------------------------------------------------
(* The state as one record, so that an entry point is a function of it. *)

DeviceTableNames ==
    {"buffers", "shaderModules", "samplers", "textures", "textureViews",
     "bindGroupLayouts", "bindGroups", "pipelineLayouts", "renderPipelines",
     "commandEncoders", "commandBuffers", "renderPassEncoders"}

TableNames == {"g_instances", "surfaces", "devices", "swapchains"} \cup DeviceTableNames

State ==
    [g_nextId |-> g_nextId, g_instances |-> g_instances, surfaces |-> surfaces,
     devices |-> devices, swapchains |-> swapchains, buffers |-> buffers,
     shaderModules |-> shaderModules, samplers |-> samplers, textures |-> textures,
     textureViews |-> textureViews, bindGroupLayouts |-> bindGroupLayouts,
     bindGroups |-> bindGroups, pipelineLayouts |-> pipelineLayouts,
     renderPipelines |-> renderPipelines, commandEncoders |-> commandEncoders,
     commandBuffers |-> commandBuffers, renderPassEncoders |-> renderPassEncoders,
     backend |-> backend, calls |-> calls, faults |-> faults, leaked |-> leaked,
     issued |-> issued, budget |-> budget,
     last |-> last, g_registryMutex |-> g_registryMutex, threads |-> threads]

Becomes(s) ==
    /\ g_nextId' = s.g_nextId
    /\ g_instances' = s.g_instances
    /\ surfaces' = s.surfaces
    /\ devices' = s.devices
    /\ swapchains' = s.swapchains
    /\ buffers' = s.buffers
    /\ shaderModules' = s.shaderModules
    /\ samplers' = s.samplers
    /\ textures' = s.textures
    /\ textureViews' = s.textureViews
    /\ bindGroupLayouts' = s.bindGroupLayouts
    /\ bindGroups' = s.bindGroups
    /\ pipelineLayouts' = s.pipelineLayouts
    /\ renderPipelines' = s.renderPipelines
    /\ commandEncoders' = s.commandEncoders
    /\ commandBuffers' = s.commandBuffers
    /\ renderPassEncoders' = s.renderPassEncoders
    /\ backend' = s.backend
    /\ calls' = s.calls
    /\ faults' = s.faults
    /\ leaked' = s.leaked
    /\ issued' = s.issued
    /\ budget' = s.budget
    /\ last' = s.last
    /\ g_registryMutex' = s.g_registryMutex
    /\ threads' = s.threads

\* the handle tables of a state, by name
Tables(s) == [t \in TableNames |-> s[t]]

\* every handle that resolves in some table
LiveIds(s) == UNION {DOMAIN s[t] : t \in TableNames}

\* the handles of table t that device d owns
Of(s, t, d) == {x \in DOMAIN s[t] : s[t][x].device = d}

\* calls, faults and leaked describe one entry point: the backend calls it
\* made, the misuses of the backend among them, and the backend objects it
\* left without any handle to reach them
Enter(s) == [s EXCEPT !.calls = <<>>, !.faults = {}, !.leaked = {}]

\* an entry point leaves; result is "ok" or the exception thrown
Leave(s, op, args, result, ret) ==
    [s EXCEPT !.last = [op |-> op, args |-> args, result |-> result, ret |-> ret]]

\* an entry point that swallows the exception it would throw
Throw_swallowed(s, op, args, result) == Leave(Enter(s), op, args, "ok", <<>>)

\* an entry point throws before it has changed anything
Throw(s, op, args, result) == Leave(Enter(s), op, args, result, <<>>)

---------------------------------------------------------------------------
(* HandleRegistry. *)

\* g_nextId.fetch_add(1): the counter after one generateId
generateIdNext_stuck(n) == n

generateIdNext_wrap(n) == IF n >= 2 THEN 1 ELSE n + 1

generateIdNext(n) == n + 1

\* the handle the next storeObject returns
generateId(s) == s.g_nextId

\* the parents an object was created under, 0 where it has none
Owner(object) ==
    [k \in {"instance", "device", "surface"} |->
        IF k \in DOMAIN object THEN object[k] ELSE 0]

\* registry.emplace(id, object): an existing key keeps its object.  issued
\* is the history of the handles returned, with the parents of each, and
\* budget the number of handles the run may still issue.
storeObject(s, t, object) ==
    LET id == generateId(s)
    IN [s EXCEPT ![t] = [x \in DOMAIN @ \cup {id} |->
                            IF x \in DOMAIN @ THEN @[x] ELSE object],
                 !.g_nextId = generateIdNext(id),
                 !.issued = Append(@, [id |-> id, kind |-> t, owner |-> Owner(object)]),
                 !.budget = @ - 1]

getObject_always(s, t, id) == TRUE

\* registry.find(id) != registry.end()
getObject(s, t, id) == id \in DOMAIN s[t]

removeObject_keeps(s, t, id) == s

removeObject(s, t, id) == [s EXCEPT ![t] = Drop(@, {id})]

---------------------------------------------------------------------------
(* The backend: the Vulkan objects a handle can still reach, and the calls *)
(* made on them.                                                            *)

Obj(t, id, dev) == [t |-> t, id |-> id, dev |-> dev]

vkCreate(s, t, id, dev) == [s EXCEPT !.backend = @ \cup {Obj(t, id, dev)}]

\* the objects objs lose their last owner without having been destroyed
leak(s, objs) == [s EXCEPT !.backend = @ \ objs, !.leaked = @ \cup objs]

\* one destroy or free call on object (t, id), made through VkDevice dev
vkDestroy(s, fn, t, id, dev) ==
    LET objs == {o \in s.backend : o.t = t /\ o.id = id}
        freed == IF t = "VkCommandPool"
                 THEN {o \in s.backend : o.t = "VkCommandBuffer" /\ o.dev = id}
                 ELSE IF t = "VkDescriptorPool"
                 THEN {o \in s.backend : o.t = "VkDescriptorSet" /\ o.dev = id}
                 ELSE {}
    IN [s EXCEPT !.calls = Append(@, [fn |-> fn, t |-> t, id |-> id, dev |-> dev]),
                 !.backend = @ \ (objs \cup freed),
                 !.faults = @ \cup (IF objs = {} THEN {"double free"} ELSE {})
                              \cup (IF \E o \in objs : o.dev # dev
                                    THEN {"wrong device"} ELSE {})]

vkDeviceWaitIdle(s, dev) ==
    [s EXCEPT !.calls = Append(@, [fn |-> "vkDeviceWaitIdle", t |-> "VkDevice",
                                   id |-> dev, dev |-> dev]),
              !.faults = @ \cup (IF Obj("VkDevice", dev, dev) \in s.backend
                                 THEN {} ELSE {"use after free"})]

RECURSIVE vkDestroyEach(_, _, _, _, _)
\* a loop making the same destroy call on every handle of the sequence ids
vkDestroyEach(s, fn, t, ids, dev) ==
    IF ids = <<>> THEN s
    ELSE vkDestroyEach(vkDestroy(s, fn, t, Head(ids), dev), fn, t, Tail(ids), dev)

---------------------------------------------------------------------------
(* Instance, surface and device creation. *)

\* an entry point is not reached once the process has faulted or wedged
Running == last.result \notin {"crash", "blocked"}

\* requireInstance, requireDevice, requireSurface, requireSwapchain
hasInstance(s, i) == i \in DOMAIN s.g_instances

hasDevice(s, i, d) == d \in DOMAIN s.devices /\ s.devices[d].instance = i

hasSurface(s, i, f) == f \in DOMAIN s.surfaces /\ s.surfaces[f].instance = i

hasSwapchain(s, f, c) == c \in DOMAIN s.swapchains /\ s.swapchains[c].surface = f

\* a resource handle resolves in table t of device d
hasResource(s, t, d, x) == x \in DOMAIN s[t] /\ s[t][x].device = d

createInstanceInternal(s, outcome) ==
    IF outcome = "instance"
    THEN Throw(s, "createInstance", <<>>, "Failed to create Vulkan instance")
    ELSE LET id == generateId(s)
             s1 == vkCreate(Enter(s), "VkInstance", id, 0)
             s2 == storeObject(s1, "g_instances", [validationEnabled |-> FALSE])
         IN Leave(s2, "createInstance", <<>>, "ok", <<id>>)

createInstance(s, outcome) == createInstanceInternal(s, outcome)

createSurfaceInternal(s, i, outcome) ==
    IF outcome = "window"
    THEN Throw(s, "createSurface", <<i>>, "Failed to obtain ANativeWindow from Surface")
    ELSE IF outcome = "surface"
    THEN Throw(s, "createSurface", <<i>>, "Failed to create Android Vulkan surface")
    ELSE LET id == generateId(s)
             s1 == vkCreate(vkCreate(Enter(s), "ANativeWindow", id, 0),
                            "VkSurfaceKHR", id, 0)
             s2 == storeObject(s1, "surfaces", [instance |-> i])
         IN Leave(s2, "createSurface", <<i>>, "ok", <<id>>)

createSurface(s, i, outcome) ==
    IF ~hasInstance(s, i) THEN Throw(s, "createSurface", <<i>>, "Invalid instance handle")
    ELSE createSurfaceInternal(s, i, outcome)

createDeviceInternal(s, i, outcome) ==
    IF outcome = "noDevice"
    THEN Throw(s, "createDevice", <<i>>, "No Vulkan devices available")
    ELSE IF outcome = "device"
    THEN Throw(s, "createDevice", <<i>>, "Failed to create Vulkan device")
    ELSE IF outcome = "commandPool"
    THEN Leave(leak(Enter(s), {Obj("VkDevice", 0, 0)}),
               "createDevice", <<i>>, "Failed to create command pool", <<>>)
    ELSE IF outcome = "descriptorPool"
    THEN Leave(leak(Enter(s), {Obj("VkDevice", 0, 0), Obj("VkCommandPool", 0, 0)}),
               "createDevice", <<i>>, "Failed to create descriptor pool", <<>>)
    ELSE LET id == generateId(s)
             s1 == vkCreate(Enter(s), "VkDevice", id, id)
             s2 == vkCreate(s1, "VkCommandPool", id, id)
             s3 == vkCreate(s2, "VkDescriptorPool", id, id)
             s4 == storeObject(s3, "devices", [instance |-> i])
         IN Leave(s4, "createDevice", <<i>>, "ok", <<id>>)

createDevice(s, i, outcome) ==
    IF ~hasInstance(s, i) THEN Throw(s, "createDevice", <<i>>, "Invalid instance handle")
    ELSE createDeviceInternal(s, i, outcome)

---------------------------------------------------------------------------
(* Swapchain construction and teardown. *)

\* the objects of the swapchain under construction get the swapchain's
\* handle when it is registered
Pending == 0 - 1

rekey(s, id) ==
    [s EXCEPT !.backend = {IF o.id = Pending THEN [o EXCEPT !.id = id] ELSE o : o \in @}]

\* construction throws: nothing refers to the objects made so far
abandon(s) == leak(s, {o \in s.backend : o.id = Pending})

RECURSIVE swapchainImages(_, _, _, _)
\* the per-image loop: a non-owning texture, its view and its framebuffer
swapchainImages(b, d, n, outcome) ==
    IF b.failed # "" \/ Len(b.textureIds) = n THEN b
    ELSE LET textureId == generateId(b.s)
             s1 == storeObject(b.s, "textures",
                               [device |-> d, ownsImage |-> FALSE, ownsMemory |-> FALSE])
             viewId == generateId(s1)
             s2 == vkCreate(s1, "VkImageView", viewId, d)
             s3 == storeObject(s2, "textureViews", [device |-> d, texture |-> textureId])
             s4 == vkCreate(s3, "VkFramebuffer", viewId, d)
         IN IF outcome = "imageView"
            THEN [b EXCEPT !.s = s1, !.textureIds = Append(@, textureId),
                           !.failed = "Failed to create swapchain image view"]
            ELSE swapchainImages(
                    [s |-> s4, textureIds |-> Append(b.textureIds, textureId),
                     textureViewIds |-> Append(b.textureViewIds, viewId), failed |-> ""],
                    d, n, outcome)

\* a construction whose fence starts unsignaled
createSwapchainInternal_unsignaled(s, i, d, f, n, outcome) ==
    LET args == <<i, d, f>> IN
    IF outcome = "swapchain"
    THEN Throw(s, "createSwapchain", args, "Failed to create swapchain")
    ELSE
    LET s1 == vkCreate(vkCreate(Enter(s), "VkSwapchainKHR", Pending, d),
                       "VkRenderPass", Pending, d)
        b == swapchainImages([s |-> s1, textureIds |-> <<>>, textureViewIds |-> <<>>,
                              failed |-> ""], d, n, outcome)
        s2 == vkCreate(vkCreate(b.s, "VkSemaphore.imageAvailable", Pending, d),
                       "VkSemaphore.renderFinished", Pending, d)
        s3 == vkCreate(s2, "VkFence", Pending, d)
        id == generateId(s3)
        s4 == storeObject(s3, "swapchains",
                          [surface |-> f, device |-> d,
                           textureIds |-> b.textureIds,
                           textureViewIds |-> b.textureViewIds,
                           inFlightFence |-> "unsignaled",
                           imageAvailableSemaphore |-> FALSE,
                           renderFinishedSemaphore |-> FALSE,
                           acquired |-> {}])
    IN IF b.failed # ""
       THEN Leave(abandon(b.s), "createSwapchain", args, b.failed, <<>>)
       ELSE IF outcome = "fence"
       THEN Leave(abandon(s2), "createSwapchain", args,
                  "Failed to create swapchain fence", <<>>)
       ELSE Leave(rekey(s4, id), "createSwapchain", args, "ok", <<id>>)

createSwapchainInternal(s, i, d, f, n, outcome) ==
    LET args == <<i, d, f>> IN
    IF outcome = "swapchain"
    THEN Throw(s, "createSwapchain", args, "Failed to create swapchain")
    ELSE
    LET s1 == vkCreate(vkCreate(Enter(s), "VkSwapchainKHR", Pending, d),
                       "VkRenderPass", Pending, d)
        b == swapchainImages([s |-> s1, textureIds |-> <<>>, textureViewIds |-> <<>>,
                              failed |-> ""], d, n, outcome)
        s2 == vkCreate(vkCreate(b.s, "VkSemaphore.imageAvailable", Pending, d),
                       "VkSemaphore.renderFinished", Pending, d)
        s3 == vkCreate(s2, "VkFence", Pending, d)
        id == generateId(s3)
        s4 == storeObject(s3, "swapchains",
                          [surface |-> f, device |-> d,
                           textureIds |-> b.textureIds,
                           textureViewIds |-> b.textureViewIds,
                           inFlightFence |-> "signaled",
                           imageAvailableSemaphore |-> FALSE,
                           renderFinishedSemaphore |-> FALSE,
                           acquired |-> {}])
    IN IF b.failed # ""
       THEN Leave(abandon(b.s), "createSwapchain", args, b.failed, <<>>)
       ELSE IF outcome = "fence"
       THEN Leave(abandon(s2), "createSwapchain", args,
                  "Failed to create swapchain fence", <<>>)
       ELSE Leave(rekey(s4, id), "createSwapchain", args, "ok", <<id>>)

createSwapchain(s, i, d, f, n, outcome) ==
    LET args == <<i, d, f>> IN
    IF ~hasInstance(s, i) THEN Throw(s, "createSwapchain", args, "Invalid instance handle")
    ELSE IF ~hasDevice(s, i, d) THEN Throw(s, "createSwapchain", args, "Invalid device handle")
    ELSE IF ~hasSurface(s, i, f) THEN Throw(s, "createSwapchain", args, "Invalid surface handle")
    ELSE createSwapchainInternal(s, i, d, f, n, outcome)

\* an erase that clears the whole table of the device
eraseFrom_all(s, t, dev, ids) ==
    [s EXCEPT ![t] = Drop(@, {x \in DOMAIN @ : @[x].device = dev})]

\* device.textureViews.erase / device.textures.erase: the tables of the
\* device the caller passed
eraseFrom(s, t, dev, ids) ==
    [s EXCEPT ![t] = Drop(@, {x \in Range(ids) : x \in DOMAIN @ /\ @[x].device = dev})]

destroySwapchainInternal(s, dev, f, c) ==
    IF ~hasSwapchain(s, f, c) THEN s
    ELSE LET w == s.swapchains[c]
             s1 == removeObject(s, "swapchains", c)
             s2 == vkDeviceWaitIdle(s1, dev)
             s3 == vkDestroy(s2, "vkDestroyFence", "VkFence", c, dev)
             s4 == vkDestroy(s3, "vkDestroySemaphore", "VkSemaphore.renderFinished", c, dev)
             s5 == vkDestroy(s4, "vkDestroySemaphore", "VkSemaphore.imageAvailable", c, dev)
             s6 == vkDestroyEach(s5, "vkDestroyFramebuffer", "VkFramebuffer",
                                 w.textureViewIds, dev)
             s7 == vkDestroy(s6, "vkDestroyRenderPass", "VkRenderPass", c, dev)
             s8 == eraseFrom(s7, "textureViews", dev, w.textureViewIds)
             s9 == eraseFrom(s8, "textures", dev, w.textureIds)
         IN vkDestroy(s9, "vkDestroySwapchainKHR", "VkSwapchainKHR", c, dev)

RECURSIVE destroySwapchains(_, _)
\* a loop of destroySwapchainInternal calls over collected
\* (device to use, surface, swapchain) triples
destroySwapchains(s, triples) ==
    IF triples = <<>> THEN s
    ELSE LET x == Head(triples)
         IN destroySwapchains(destroySwapchainInternal(s, x[1], x[2], x[3]), Tail(triples))

\* the swapchain ids of surface f, in the order the loops meet them; the
\* iteration order of an unordered_map is fixed here as ascending
swapchainIds(s, f) == Sorted({c \in DOMAIN s.swapchains : s.swapchains[c].surface = f})

---------------------------------------------------------------------------
(* Device and surface teardown. *)

\* the backend objects a VulkanSwapchain holds
SwapchainObjects ==
    {"VkSwapchainKHR", "VkRenderPass", "VkFence",
     "VkSemaphore.imageAvailable", "VkSemaphore.renderFinished"}

\* the destructor of a VulkanDevice: its tables go, no backend call is made
dropDevice(s, d) ==
    leak([k \in DOMAIN s |->
             IF k \in DeviceTableNames THEN Drop(s[k], Of(s, k, d)) ELSE s[k]],
         {o \in s.backend : o.dev = d})

\* the destructor of a VulkanSurface
dropSurface(s, f) ==
    LET cs == {c \in DOMAIN s.swapchains : s.swapchains[c].surface = f}
    IN leak([s EXCEPT !.swapchains = Drop(@, cs)],
            {o \in s.backend :
                \/ o.t \in {"VkSurfaceKHR", "ANativeWindow"} /\ o.id = f
                \/ o.t \in SwapchainObjects /\ o.id \in cs})

RECURSIVE dropEach(_, _, _)
dropEach(s, ids, kind) ==
    IF ids = {} THEN s
    ELSE LET x == CHOOSE y \in ids : TRUE
             s1 == IF kind = "devices" THEN dropDevice(removeObject(s, "devices", x), x)
                   ELSE dropSurface(removeObject(s, "surfaces", x), x)
         IN dropEach(s1, ids \ {x}, kind)

\* the destructor of a VulkanInstance
dropInstance(s, i) ==
    LET s1 == dropEach(s, {d \in DOMAIN s.devices : s.devices[d].instance = i}, "devices")
        s2 == dropEach(s1, {f \in DOMAIN s1.surfaces : s1.surfaces[f].instance = i},
                       "surfaces")
    IN leak(s2, {o \in s2.backend : o.t = "VkInstance" /\ o.id = i})

\* a device teardown that leaves the swapchains alone
deviceTeardown_keepsSwapchains ==
    <<"renderPipelines", "pipelineLayouts", "bindGroups",
      "bindGroupLayouts", "samplers", "textureViews", "textures", "buffers",
      "descriptorPool", "commandPool", "device">>

\* the statements of destroyDeviceInternal after the idle wait, in order
deviceTeardown_texturesFirst ==
    <<"swapchains", "renderPipelines", "pipelineLayouts", "bindGroups",
      "bindGroupLayouts", "samplers", "textures", "textureViews", "buffers",
      "descriptorPool", "commandPool", "device">>

deviceTeardown ==
    <<"swapchains", "renderPipelines", "pipelineLayouts", "bindGroups",
      "bindGroupLayouts", "samplers", "textureViews", "textures", "buffers",
      "descriptorPool", "commandPool", "device">>

RECURSIVE surfaceSwapchains(_, _, _)
\* for every surface of fs, every swapchain of it, to be destroyed through d
surfaceSwapchains(s, d, fs) ==
    IF fs = <<>> THEN <<>>
    ELSE LET ids == swapchainIds(s, Head(fs))
         IN [k \in 1..Len(ids) |-> <<d, Head(fs), ids[k]>>]
            \o surfaceSwapchains(s, d, Tail(fs))

RECURSIVE destroyTextures(_, _, _)
destroyTextures(s, d, ids) ==
    IF ids = <<>> THEN s
    ELSE LET x == s.textures[Head(ids)]
             s1 == IF x.ownsImage
                   THEN vkDestroy(s, "vkDestroyImage", "VkImage", Head(ids), d) ELSE s
             s2 == IF x.ownsMemory
                   THEN vkDestroy(s1, "vkFreeMemory", "VkDeviceMemory", Head(ids), d) ELSE s1
         IN destroyTextures(s2, d, Tail(ids))

RECURSIVE destroyBuffers(_, _, _)
destroyBuffers(s, d, ids) ==
    IF ids = <<>> THEN s
    ELSE LET s1 == vkDestroy(s, "vkDestroyBuffer", "VkBuffer", Head(ids), d)
             s2 == vkDestroy(s1, "vkFreeMemory", "VkDeviceMemory", Head(ids), d)
         IN destroyBuffers(s2, d, Tail(ids))

RECURSIVE destroyPipelines(_, _, _)
destroyPipelines(s, d, ids) ==
    IF ids = <<>> THEN s
    ELSE LET s1 == vkDestroy(s, "vkDestroyPipeline", "VkPipeline", Head(ids), d)
             s2 == IF s.renderPipelines[Head(ids)].renderPass
                   THEN vkDestroy(s1, "vkDestroyRenderPass", "VkRenderPass", Head(ids), d)
                   ELSE s1
         IN destroyPipelines(s2, d, Tail(ids))

\* one statement of destroyDeviceInternal, for device d of instance i
deviceTeardownStep(s, i, d, step) ==
    LET own(t) == Sorted(Of(s, t, d)) IN
    CASE step = "swapchains" ->
            destroySwapchains(s, surfaceSwapchains(s, d,
                Sorted({f \in DOMAIN s.surfaces : s.surfaces[f].instance = i})))
      [] step = "renderPipelines" -> destroyPipelines(s, d, own("renderPipelines"))
      [] step = "pipelineLayouts" ->
            vkDestroyEach(s, "vkDestroyPipelineLayout", "VkPipelineLayout",
                          own("pipelineLayouts"), d)
      [] step = "bindGroups" -> s
      [] step = "bindGroupLayouts" ->
            vkDestroyEach(s, "vkDestroyDescriptorSetLayout", "VkDescriptorSetLayout",
                          own("bindGroupLayouts"), d)
      [] step = "samplers" ->
            vkDestroyEach(s, "vkDestroySampler", "VkSampler", own("samplers"), d)
      [] step = "textureViews" ->
            vkDestroyEach(s, "vkDestroyImageView", "VkImageView", own("textureViews"), d)
      [] step = "textures" -> destroyTextures(s, d, own("textures"))
      [] step = "buffers" -> destroyBuffers(s, d, own("buffers"))
      [] step = "descriptorPool" ->
            vkDestroy(s, "vkDestroyDescriptorPool", "VkDescriptorPool", d, d)
      [] step = "commandPool" ->
            vkDestroy(s, "vkDestroyCommandPool", "VkCommandPool", d, d)
      [] step = "device" -> vkDestroy(s, "vkDestroyDevice", "VkDevice", d, d)

RECURSIVE deviceTeardownFrom(_, _, _, _)
deviceTeardownFrom(s, i, d, steps) ==
    IF steps = <<>> THEN s
    ELSE deviceTeardownFrom(deviceTeardownStep(s, i, d, Head(steps)), i, d, Tail(steps))

destroyDeviceInternal(s, i, d) ==
    IF ~hasDevice(s, i, d) THEN s
    ELSE LET s1 == removeObject(s, "devices", d)
             s2 == vkDeviceWaitIdle(s1, d)
         IN dropDevice(deviceTeardownFrom(s2, i, d, deviceTeardown), d)

\* a surface teardown that destroys every swapchain through one device of
\* the instance, whichever device the swapchain was built on
destroySurfaceInternal_oneDevice(s, i, f) ==
    IF ~hasSurface(s, i, f) THEN s
    ELSE LET s1 == removeObject(s, "surfaces", f)
             ids == swapchainIds(s1, f)
             ds == {d \in DOMAIN s1.devices : s1.devices[d].instance = i}
             d0 == CHOOSE d \in ds : \A e \in ds : d <= e
             swapInfos == [k \in 1..Len(ids) |-> <<d0, f, ids[k]>>]
             s2 == destroySwapchains(s1, swapInfos)
             s3 == vkDestroy(s2, "destroySurfaceKHR", "VkSurfaceKHR", f, 0)
             s4 == vkDestroy(s3, "ANativeWindow_release", "ANativeWindow", f, 0)
         IN dropSurface(s4, f)

destroySurfaceInternal(s, i, f) ==
    IF ~hasSurface(s, i, f) THEN s
    ELSE LET s1 == removeObject(s, "surfaces", f)
             ids == swapchainIds(s1, f)
             swapInfos == [k \in 1..Len(ids) |-> <<s1.swapchains[ids[k]].device, f, ids[k]>>]
             s2 == destroySwapchains(s1, swapInfos)
             s3 == vkDestroy(s2, "destroySurfaceKHR", "VkSurfaceKHR", f, 0)
             s4 == vkDestroy(s3, "ANativeWindow_release", "ANativeWindow", f, 0)
         IN dropSurface(s4, f)

---------------------------------------------------------------------------
(* kreekt::vk destroy entry points. *)

destroySwapchain(s, i, d, f, c) ==
    LET args == <<i, d, f, c>> IN
    IF ~hasInstance(s, i) THEN Throw(s, "destroySwapchain", args, "Invalid instance handle")
    ELSE IF ~hasDevice(s, i, d) THEN Throw(s, "destroySwapchain", args, "Invalid device handle")
    ELSE IF ~hasSurface(s, i, f) THEN Throw(s, "destroySwapchain", args, "Invalid surface handle")
    ELSE Leave(destroySwapchainInternal(Enter(s), d, f, c), "destroySwapchain", args, "ok", <<>>)

destroySurface(s, i, f) ==
    IF ~hasInstance(s, i) THEN Throw(s, "destroySurface", <<i, f>>, "Invalid instance handle")
    ELSE Leave(destroySurfaceInternal(Enter(s), i, f), "destroySurface", <<i, f>>, "ok", <<>>)

destroyDevice(s, i, d) ==
    IF ~hasInstance(s, i) THEN Throw(s, "destroyDevice", <<i, d>>, "Invalid instance handle")
    ELSE Leave(destroyDeviceInternal(Enter(s), i, d), "destroyDevice", <<i, d>>, "ok", <<>>)

\* what a range-for can do after its body erased the element it stands on:
\* the increment reads a freed node, which is undefined behaviour.  It may
\* find the next element, find the end, or fault.
StaleIterator == {"next", "end", "fault"}

RECURSIVE eraseLoop(_, _, _, _)
\* the range-for loops of destroyInstance over instancePtr->devices and
\* instancePtr->surfaces; ids holds the entries not yet visited, in the
\* order of the container.  The result is the set of outcomes, each the
\* state reached and whether the process faulted.
eraseLoop(s, h, ids, kind) ==
    IF ids = <<>> THEN {[s |-> s, crash |-> FALSE]}
    ELSE LET s1 == IF kind = "devices" THEN destroyDeviceInternal(s, h, Head(ids))
                   ELSE destroySurfaceInternal(s, h, Head(ids))
         IN UNION {
               CASE it = "next" -> eraseLoop(s1, h, Tail(ids), kind)
                 [] it = "end" -> {[s |-> s1, crash |-> FALSE]}
                 [] it = "fault" -> {[s |-> s1, crash |-> TRUE]}
               : it \in StaleIterator}

\* the body of destroyInstance; a set of outcomes
destroyInstanceOutcomes(s, h) ==
    IF ~getObject(s, "g_instances", h) THEN {[s |-> s, crash |-> FALSE]}
    ELSE LET s1 == removeObject(s, "g_instances", h)
             own(u, t) == Sorted({x \in DOMAIN u[t] : u[t][x].instance = h})
         IN UNION {
               IF a.crash THEN {a}
               ELSE UNION {
                       IF b.crash THEN {b}
                       ELSE {[s |-> dropInstance(
                                       vkDestroy(b.s, "vkDestroyInstance", "VkInstance", h, 0),
                                       h),
                              crash |-> FALSE]}
                       : b \in eraseLoop(a.s, h, own(a.s, "surfaces"), "surfaces")}
               : a \in eraseLoop(s1, h, own(s1, "devices"), "devices")}

\* the process is gone, and its registries and backend objects with it
Crashed(s, op, args) ==
    [k \in DOMAIN s |->
        CASE k \in TableNames \cup {"calls", "issued", "threads"} -> <<>>
          [] k \in {"backend", "faults", "leaked"} -> {}
          [] k = "g_nextId" -> 1
          [] k \in {"budget", "g_registryMutex"} -> 0
          [] k = "last" -> [op |-> op, args |-> args, result |-> "crash", ret |-> <<>>]]

destroyInstance(s, h) ==
    {IF o.crash THEN Crashed(s, "destroyInstance", <<h>>)
     ELSE Leave(o.s, "destroyInstance", <<h>>, "ok", <<>>)
        : o \in destroyInstanceOutcomes(Enter(s), h)}

RECURSIVE clearEach(_, _)
clearEach(s, ids) ==
    IF ids = <<>> THEN s
    ELSE clearEach(dropInstance(s, Head(ids)), Tail(ids))

\* g_instances.clear(): what is still registered is dropped, not torn down
clearInstances(s) ==
    clearEach([s EXCEPT !.g_instances = <<>>], Sorted(DOMAIN s.g_instances))

RECURSIVE instancesLoop(_, _)
\* the range-for of destroyAll over g_instances, from which the
\* destroyInstance it calls erases the entry under the iterator
instancesLoop(s, ids) ==
    IF ids = <<>> THEN {[s |-> s, crash |-> FALSE]}
    ELSE UNION {
            IF o.crash THEN {o}
            ELSE UNION {
                    CASE it = "next" -> instancesLoop(o.s, Tail(ids))
                      [] it = "end" -> {o}
                      [] it = "fault" -> {[o EXCEPT !.crash = TRUE]}
                    : it \in StaleIterator}
            : o \in destroyInstanceOutcomes(s, Head(ids))}

destroyAll(s) ==
    {IF o.crash THEN Crashed(s, "destroyAll", <<>>)
     ELSE Leave(clearInstances(o.s), "destroyAll", <<>>, "ok", <<>>)
        : o \in instancesLoop(Enter(s), Sorted(DOMAIN s.g_instances))}

---------------------------------------------------------------------------
(* The arguments a caller can pass, and the actions of the hierarchy. *)

\* the handles of kind t returned so far, live or not
IssuedOf(t) == {e \in Range(issued) : e.kind = t}

\* a caller passes a handle it was given, or 0, which was never issued
InstanceArgs == {0} \cup {e.id : e \in IssuedOf("g_instances")}

\* a child handle is passed with the parent handles it was created under
DeviceArgs == {<<0, 0>>} \cup {<<e.owner.instance, e.id>> : e \in IssuedOf("devices")}

SurfaceArgs == {<<0, 0>>} \cup {<<e.owner.instance, e.id>> : e \in IssuedOf("surfaces")}

\* a device and a surface of one instance
ParentArgs ==
    {<<p[1][1], p[1][2], p[2][2]>> :
        p \in {q \in DeviceArgs \X SurfaceArgs : q[1][1] = q[2][1]}}

SwapchainArgs ==
    {<<0, 0, 0, 0>>}
        \cup UNION {{<<a[1], a[2], a[3], e.id>> :
                        a \in {x \in ParentArgs : /\ x[2] = e.owner.device
                                                   /\ x[3] = e.owner.surface}}
                     : e \in IssuedOf("swapchains")}

\* room for n more handles within the bound
CanIssue(n) == budget >= n

\* the state of a process that has made no call yet
Fresh ==
    [k \in TableNames \cup
            {"g_nextId", "backend", "calls", "faults", "leaked", "issued", "budget", "last",
             "g_registryMutex", "threads"} |->
        CASE k \in TableNames \cup {"calls", "issued", "threads"} -> <<>>
          [] k = "g_registryMutex" -> 0
          [] k \in {"backend", "faults", "leaked"} -> {}
          [] k = "g_nextId" -> 1
          [] k = "budget" -> MaxId
          [] k = "last" -> [op |-> "init", args |-> <<>>, result |-> "ok", ret |-> <<>>]]

\* the variables hold the state s
Is(s) ==
    /\ g_nextId = s.g_nextId
    /\ g_instances = s.g_instances
    /\ surfaces = s.surfaces
    /\ devices = s.devices
    /\ swapchains = s.swapchains
    /\ buffers = s.buffers
    /\ shaderModules = s.shaderModules
    /\ samplers = s.samplers
    /\ textures = s.textures
    /\ textureViews = s.textureViews
    /\ bindGroupLayouts = s.bindGroupLayouts
    /\ bindGroups = s.bindGroups
    /\ pipelineLayouts = s.pipelineLayouts
    /\ renderPipelines = s.renderPipelines
    /\ commandEncoders = s.commandEncoders
    /\ commandBuffers = s.commandBuffers
    /\ renderPassEncoders = s.renderPassEncoders
    /\ backend = s.backend
    /\ calls = s.calls
    /\ faults = s.faults
    /\ leaked = s.leaked
    /\ issued = s.issued
    /\ budget = s.budget
    /\ last = s.last
    /\ g_registryMutex = s.g_registryMutex
    /\ threads = s.threads

Init == Is(Fresh)

\* an instance with one surface and one device: handles 1, 2 and 3
Scene ==
    LET s1 == createInstance(Fresh, "ok")
        s2 == createSurface(s1, s1.last.ret[1], "ok")
    IN createDevice(s2, s1.last.ret[1], "ok")

InitScene == Is([Scene EXCEPT !.budget = MaxSceneId])

CreateInstance ==
    /\ Running /\ CanIssue(1)
    /\ Cardinality(DOMAIN g_instances) < MaxInstances
    /\ \E outcome \in {"ok", "instance"} : Becomes(createInstance(State, outcome))

CreateSurface ==
    /\ Running /\ CanIssue(1)
    /\ \E i \in InstanceArgs, outcome \in {"ok", "window"} :
          Becomes(createSurface(State, i, outcome))

CreateDevice ==
    /\ Running /\ CanIssue(1)
    /\ \E i \in InstanceArgs, outcome \in {"ok", "noDevice"} :
          Becomes(createDevice(State, i, outcome))

CreateSwapchain ==
    /\ Running
    /\ \E n \in 1..MaxImages :
          /\ CanIssue(2 * n + 1)
          /\ \E a \in ParentArgs, outcome \in {"ok", "swapchain"} :
                Becomes(createSwapchain(State, a[1], a[2], a[3], n, outcome))

DestroySwapchain ==
    /\ Running
    /\ \E a \in SwapchainArgs : Becomes(destroySwapchain(State, a[1], a[2], a[3], a[4]))

DestroySurface ==
    /\ Running
    /\ \E a \in SurfaceArgs : Becomes(destroySurface(State, a[1], a[2]))

DestroyDevice ==
    /\ Running
    /\ \E a \in DeviceArgs : Becomes(destroyDevice(State, a[1], a[2]))

DestroyInstance ==
    /\ Running
    /\ \E h \in InstanceArgs : \E t \in destroyInstance(State, h) : Becomes(t)

DestroyAll ==
    /\ Running
    /\ \E t \in destroyAll(State) : Becomes(t)

Next ==
    \/ CreateInstance
    \/ CreateSurface
    \/ CreateDevice
    \/ CreateSwapchain
    \/ DestroySwapchain
    \/ DestroySurface
    \/ DestroyDevice
    \/ DestroyInstance
    \/ DestroyAll

Spec == Init /\ [][Next]_vars

SpecScene == InitScene /\ [][Next]_vars

---------------------------------------------------------------------------
(* Runs on an instance with one surface and two devices. *)

MaxTwoId == 3

\* the scene with a second device: handles 1, 2, 3 and 4
SceneTwo == createDevice([Scene EXCEPT !.budget = 1], 1, "ok")

\* the same with a swapchain of one image on device 3: handles 5, 6 and 7
SceneTwoSwapchain == createSwapchain([SceneTwo EXCEPT !.budget = 3], 1, 3, 2, 1, "ok")

InitTwo ==
    \E s \in {SceneTwo, SceneTwoSwapchain} : Is([s EXCEPT !.budget = MaxTwoId])

\* destroySwapchain takes the device from the caller: here the caller passes
\* another device of the instance than the one the swapchain was built on
DestroySwapchainOn ==
    /\ Running
    /\ \E a \in SwapchainArgs, b \in DeviceArgs :
          /\ b[1] = a[1] /\ b[2] # a[2]
          /\ Becomes(destroySwapchain(State, a[1], b[2], a[3], a[4]))

NextTwo ==
    \/ CreateSwapchain
    \/ DestroySwapchain
    \/ DestroySwapchainOn
    \/ DestroySurface
    \/ DestroyDevice
    \/ DestroyInstance

SpecTwo == InitTwo /\ [][NextTwo]_vars

---------------------------------------------------------------------------
(* Device resources: the JNI exports that create them. *)

\* a sequence of require* calls, each a pair of its lookup and its message:
\* the message of the first lookup that fails, or "ok"
Require(checks) ==
    IF \A k \in DOMAIN checks : checks[k][1] THEN "ok"
    ELSE checks[CHOOSE k \in DOMAIN checks :
                    ~checks[k][1] /\ \A j \in 1..(k - 1) : checks[j][1]][2]

\* requireInstance followed by requireDevice
requireDevice(s, i, d) ==
    <<<<hasInstance(s, i), "Invalid instance handle">>,
      <<hasDevice(s, i, d), "Invalid device handle">>>>

\* requireBuffer .. requireRenderPassEncoder on the tables of device d
requireResource(s, t, d, x, what) ==
    <<<<hasResource(s, t, d, x), "Invalid " \o what \o " handle">>>>

\* a create of one backend object of type vk, registered in table t
createResource(s, op, args, t, vk, d, object, outcome, message) ==
    IF outcome # "ok" THEN Throw(s, op, args, message)
    ELSE LET id == generateId(s)
             s1 == vkCreate(Enter(s), vk, id, d)
         IN Leave(storeObject(s1, t, object), op, args, "ok", <<id>>)

\* a create of a backend object and the memory bound to it
createWithMemory(s, op, args, t, vk, d, object, outcome, what) ==
    IF outcome = "object" THEN Throw(s, op, args, "Failed to create " \o what)
    ELSE IF outcome = "memory"
    THEN Leave(leak(Enter(s), {Obj(vk, 0, d)}), op, args,
               "Failed to allocate " \o what \o " memory", <<>>)
    ELSE LET id == generateId(s)
             s1 == vkCreate(vkCreate(Enter(s), vk, id, d), "VkDeviceMemory", id, d)
         IN Leave(storeObject(s1, t, object), op, args, "ok", <<id>>)

vkCreateBuffer(s, i, d, outcome) ==
    LET r == Require(requireDevice(s, i, d)) IN
    IF r # "ok" THEN Throw(s, "createBuffer", <<i, d>>, r)
    ELSE createWithMemory(s, "createBuffer", <<i, d>>, "buffers", "VkBuffer", d,
                          [device |-> d], outcome, "Vulkan buffer")

vkCreateShaderModule(s, i, d, outcome) ==
    LET r == Require(requireDevice(s, i, d)) IN
    IF r # "ok" THEN Throw(s, "createShaderModule", <<i, d>>, r)
    ELSE createResource(s, "createShaderModule", <<i, d>>, "shaderModules",
                        "VkShaderModule", d, [device |-> d], outcome,
                        "Failed to create shader module")

vkCreateSampler(s, i, d, outcome) ==
    LET r == Require(requireDevice(s, i, d)) IN
    IF r # "ok" THEN Throw(s, "createSampler", <<i, d>>, r)
    ELSE createResource(s, "createSampler", <<i, d>>, "samplers", "VkSampler", d,
                        [device |-> d], outcome, "Failed to create sampler")

vkCreateTexture(s, i, d, outcome) ==
    LET r == Require(requireDevice(s, i, d)) IN
    IF r # "ok" THEN Throw(s, "createTexture", <<i, d>>, r)
    ELSE createWithMemory(s, "createTexture", <<i, d>>, "textures", "VkImage", d,
                          [device |-> d, ownsImage |-> TRUE, ownsMemory |-> TRUE],
                          outcome, "image")

vkCreateTextureView(s, i, d, x, outcome) ==
    LET r == Require(requireDevice(s, i, d)
                        \o requireResource(s, "textures", d, x, "texture")) IN
    IF r # "ok" THEN Throw(s, "createTextureView", <<i, d, x>>, r)
    ELSE createResource(s, "createTextureView", <<i, d, x>>, "textureViews",
                        "VkImageView", d, [device |-> d, texture |-> x], outcome,
                        "Failed to create image view")

vkCreateBindGroupLayout(s, i, d, outcome) ==
    LET r == Require(requireDevice(s, i, d)) IN
    IF r # "ok" THEN Throw(s, "createBindGroupLayout", <<i, d>>, r)
    ELSE createResource(s, "createBindGroupLayout", <<i, d>>, "bindGroupLayouts",
                        "VkDescriptorSetLayout", d, [device |-> d], outcome,
                        "Failed to create descriptor set layout")

\* the bind groups of the model have no entries
vkCreateBindGroup(s, i, d, x, outcome) ==
    LET r == Require(requireDevice(s, i, d)
                        \o requireResource(s, "bindGroupLayouts", d, x, "bind group layout")) IN
    IF r # "ok" THEN Throw(s, "createBindGroup", <<i, d, x>>, r)
    ELSE createResource(s, "createBindGroup", <<i, d, x>>, "bindGroups",
                        "VkDescriptorSet", d, [device |-> d, layout |-> x], outcome,
                        "Failed to allocate descriptor set")

\* layouts is the sequence of bind-group-layout handles passed
vkCreatePipelineLayout(s, i, d, layouts, outcome) ==
    LET r == Require(requireDevice(s, i, d)
                        \o [k \in DOMAIN layouts |->
                               requireResource(s, "bindGroupLayouts", d, layouts[k],
                                               "bind group layout")[1]]) IN
    IF r # "ok" THEN Throw(s, "createPipelineLayout", <<i, d>> \o layouts, r)
    ELSE createResource(s, "createPipelineLayout", <<i, d>> \o layouts, "pipelineLayouts",
                        "VkPipelineLayout", d, [device |-> d], outcome,
                        "Failed to create pipeline layout")

\* called with renderPassHandle = 0: the pipeline gets a render pass of its own
vkCreateRenderPipeline(s, i, d, pl, vs, fs, outcome) ==
    LET args == <<i, d, pl, vs, fs>>
        r == Require(requireDevice(s, i, d)
                        \o requireResource(s, "pipelineLayouts", d, pl, "pipeline layout")
                        \o requireResource(s, "shaderModules", d, vs, "shader module")
                        \o requireResource(s, "shaderModules", d, fs, "shader module")) IN
    IF r # "ok" THEN Throw(s, "createRenderPipeline", args, r)
    ELSE IF outcome = "renderPass"
    THEN Throw(s, "createRenderPipeline", args, "Failed to create render pass")
    ELSE IF outcome = "pipeline"
    THEN Leave(leak(Enter(s), {Obj("VkRenderPass", 0, d)}), "createRenderPipeline", args,
               "Failed to create graphics pipeline", <<>>)
    ELSE LET id == generateId(s)
             s1 == vkCreate(vkCreate(Enter(s), "VkRenderPass", id, d), "VkPipeline", id, d)
         IN Leave(storeObject(s1, "renderPipelines",
                              [device |-> d, pipelineLayout |-> pl, renderPass |-> TRUE]),
                  "createRenderPipeline", args, "ok", <<id>>)

vkCreateCommandEncoder(s, i, d, outcome) ==
    LET r == Require(requireDevice(s, i, d)) IN
    IF r # "ok" THEN Throw(s, "createCommandEncoder", <<i, d>>, r)
    ELSE IF outcome = "allocate"
    THEN Throw(s, "createCommandEncoder", <<i, d>>, "Failed to allocate command buffer")
    ELSE LET id == generateId(s)
             s1 == vkCreate(Enter(s), "VkCommandBuffer", id, d)
         IN Leave(storeObject(s1, "commandEncoders",
                              [device |-> d, commandBuffer |-> id, currentPipeline |-> 0,
                               targetSwapchain |-> 0, swapchainImageIndex |-> 0]),
                  "createCommandEncoder", <<i, d>>, "ok", <<id>>)

---------------------------------------------------------------------------
(* Command encoding, submission and frames. *)

\* one backend call that uses object (t, id) without destroying it
vkUse(s, fn, t, id, dev) ==
    [s EXCEPT !.calls = Append(@, [fn |-> fn, t |-> t, id |-> id, dev |-> dev]),
              !.faults = @ \cup (IF \E o \in s.backend : o.t = t /\ o.id = id
                                 THEN {} ELSE {"use after free"})]

requireCommandEncoder(s, i, d, e) ==
    requireDevice(s, i, d) \o requireResource(s, "commandEncoders", d, e, "command encoder")

\* a vkCmd* call on the command buffer of encoder e
record(s, fn, e, d) == vkUse(s, fn, "VkCommandBuffer", s.commandEncoders[e].commandBuffer, d)

\* the swapchain of instance i one of whose images the view v shows, or 0
swapchainOfView(s, i, v) ==
    LET found == {c \in DOMAIN s.swapchains :
                     /\ hasSurface(s, i, s.swapchains[c].surface)
                     /\ v \in Range(s.swapchains[c].textureViewIds)}
    IN IF found = {} THEN 0 ELSE CHOOSE c \in found : TRUE

beginRenderPassInternal(s, d, e, p, v, swapchain, imageIndex, outcome) ==
    LET args == <<s.devices[d].instance, d, e, p, v>> IN
    IF swapchain = 0 /\ outcome = "framebuffer"
    THEN Throw(s, "beginRenderPass", args, "Failed to create transient framebuffer")
    ELSE LET id == generateId(s)
             s1 == IF swapchain = 0
                   THEN vkCreate(Enter(s), "VkFramebuffer.transient", id, d)
                   ELSE Enter(s)
             s2 == record(record(record(s1, "vkCmdBeginRenderPass", e, d),
                                 "vkCmdSetViewport", e, d), "vkCmdSetScissor", e, d)
             s3 == [s2 EXCEPT !.commandEncoders[e].currentPipeline = p,
                              !.commandEncoders[e].targetSwapchain = swapchain,
                              !.commandEncoders[e].swapchainImageIndex = imageIndex]
         IN Leave(storeObject(s3, "renderPassEncoders",
                              [device |-> d, encoder |-> e, recording |-> TRUE]),
                  "beginRenderPass", args, "ok", <<id>>)

vkCommandEncoderBeginRenderPass(s, i, d, e, p, v, isSwapchain, imageIndex, outcome) ==
    LET r == Require(requireCommandEncoder(s, i, d, e)
                        \o requireResource(s, "renderPipelines", d, p, "pipeline")
                        \o requireResource(s, "textureViews", d, v, "texture view")) IN
    IF r # "ok" THEN Throw(s, "beginRenderPass", <<i, d, e, p, v>>, r)
    ELSE beginRenderPassInternal(s, d, e, p, v,
                                 IF isSwapchain THEN swapchainOfView(s, i, v) ELSE 0,
                                 imageIndex, outcome)

\* what a read through a pointer to a destroyed or absent object can do
BadPointer == {"fault", "garbage"}

endRenderPassInternal(s, args, rp, ub) ==
    LET pass == s.renderPassEncoders[rp] IN
    IF ~pass.recording THEN Leave(Enter(s), "endRenderPass", args, "ok", <<>>)
    ELSE IF pass.encoder \notin DOMAIN s.commandEncoders
    THEN IF ub = "fault" THEN Crashed(s, "endRenderPass", args)
         ELSE Leave([Enter(s) EXCEPT !.faults = {"use after free"},
                                     !.renderPassEncoders[rp].recording = FALSE],
                    "endRenderPass", args, "ok", <<>>)
    ELSE Leave([record(Enter(s), "vkCmdEndRenderPass", pass.encoder, pass.device)
                   EXCEPT !.renderPassEncoders[rp].recording = FALSE],
               "endRenderPass", args, "ok", <<>>)

vkCommandEncoderEndRenderPass(s, i, d, rp, ub) ==
    LET r == Require(requireDevice(s, i, d)
                        \o requireResource(s, "renderPassEncoders", d, rp,
                                           "render pass encoder")) IN
    IF r # "ok" THEN Throw(s, "endRenderPass", <<i, d, rp>>, r)
    ELSE endRenderPassInternal(s, <<i, d, rp>>, rp, ub)

vkCommandEncoderSetPipeline(s, i, d, e, p) ==
    LET r == Require(requireCommandEncoder(s, i, d, e)
                        \o requireResource(s, "renderPipelines", d, p, "pipeline")) IN
    IF r # "ok" THEN Throw(s, "setPipeline", <<i, d, e, p>>, r)
    ELSE Leave([record(Enter(s), "vkCmdBindPipeline", e, d)
                   EXCEPT !.commandEncoders[e].currentPipeline = p],
               "setPipeline", <<i, d, e, p>>, "ok", <<>>)

vkCommandEncoderSetVertexBuffer(s, i, d, e, b) ==
    LET r == Require(requireCommandEncoder(s, i, d, e)
                        \o requireResource(s, "buffers", d, b, "buffer")) IN
    IF r # "ok" THEN Throw(s, "setVertexBuffer", <<i, d, e, b>>, r)
    ELSE Leave(record(Enter(s), "vkCmdBindVertexBuffers", e, d),
               "setVertexBuffer", <<i, d, e, b>>, "ok", <<>>)

vkCommandEncoderSetIndexBuffer(s, i, d, e, b) ==
    LET r == Require(requireCommandEncoder(s, i, d, e)
                        \o requireResource(s, "buffers", d, b, "buffer")) IN
    IF r # "ok" THEN Throw(s, "setIndexBuffer", <<i, d, e, b>>, r)
    ELSE Leave(record(Enter(s), "vkCmdBindIndexBuffer", e, d),
               "setIndexBuffer", <<i, d, e, b>>, "ok", <<>>)

\* encoder->currentPipeline->pipelineLayout->layout is read unguarded
vkCommandEncoderSetBindGroup(s, i, d, e, g, ub) ==
    LET r == Require(requireCommandEncoder(s, i, d, e)
                        \o requireResource(s, "bindGroups", d, g, "bind group")) IN
    IF r # "ok" THEN Throw(s, "setBindGroup", <<i, d, e, g>>, r)
    ELSE IF s.commandEncoders[e].currentPipeline = 0
    THEN IF ub = "fault" THEN Crashed(s, "setBindGroup", <<i, d, e, g>>)
         ELSE Leave([record(Enter(s), "vkCmdBindDescriptorSets", e, d)
                        EXCEPT !.faults = @ \cup {"null dereference"}],
                    "setBindGroup", <<i, d, e, g>>, "ok", <<>>)
    ELSE Leave(record(Enter(s), "vkCmdBindDescriptorSets", e, d),
               "setBindGroup", <<i, d, e, g>>, "ok", <<>>)

vkCommandEncoderDraw(s, i, d, e) ==
    LET r == Require(requireCommandEncoder(s, i, d, e)) IN
    IF r # "ok" THEN Throw(s, "draw", <<i, d, e>>, r)
    ELSE Leave(record(Enter(s), "vkCmdDraw", e, d), "draw", <<i, d, e>>, "ok", <<>>)

vkCommandEncoderDrawIndexed(s, i, d, e) ==
    LET r == Require(requireCommandEncoder(s, i, d, e)) IN
    IF r # "ok" THEN Throw(s, "drawIndexed", <<i, d, e>>, r)
    ELSE Leave(record(Enter(s), "vkCmdDrawIndexed", e, d),
               "drawIndexed", <<i, d, e>>, "ok", <<>>)

\* a finish that drops the target of the encoder
finishCommandEncoderInternal_noTarget(s, d, e, args, outcome) ==
    IF outcome = "end"
    THEN Leave(record(Enter(s), "vkEndCommandBuffer", e, d), "finish", args,
               "Failed to end command buffer", <<>>)
    ELSE LET enc == s.commandEncoders[e]
             id == generateId(s)
             s1 == record(Enter(s), "vkEndCommandBuffer", e, d)
         IN Leave(storeObject(s1, "commandBuffers",
                              [device |-> d, commandBuffer |-> enc.commandBuffer,
                               swapchain |-> 0,
                               imageIndex |-> enc.swapchainImageIndex]),
                  "finish", args, "ok", <<id>>)

finishCommandEncoderInternal(s, d, e, args, outcome) ==
    IF outcome = "end"
    THEN Leave(record(Enter(s), "vkEndCommandBuffer", e, d), "finish", args,
               "Failed to end command buffer", <<>>)
    ELSE LET enc == s.commandEncoders[e]
             id == generateId(s)
             s1 == record(Enter(s), "vkEndCommandBuffer", e, d)
         IN Leave(storeObject(s1, "commandBuffers",
                              [device |-> d, commandBuffer |-> enc.commandBuffer,
                               swapchain |-> enc.targetSwapchain,
                               imageIndex |-> enc.swapchainImageIndex]),
                  "finish", args, "ok", <<id>>)

vkCommandEncoderFinish(s, i, d, e, outcome) ==
    LET r == Require(requireCommandEncoder(s, i, d, e)) IN
    IF r # "ok" THEN Throw(s, "finish", <<i, d, e>>, r)
    ELSE finishCommandEncoderInternal(s, d, e, <<i, d, e>>, outcome)

submitCommandBufferInternal(s, d, cb, swapchain, args, outcome, ub) ==
    LET s1 == vkUse(s, "vkQueueSubmit", "VkCommandBuffer",
                    s.commandBuffers[cb].commandBuffer, d) IN
    IF swapchain # 0 /\ swapchain \notin DOMAIN s.swapchains
    THEN \* commandBuffer->swapchain points at a destroyed VulkanSwapchain
         IF ub = "fault" THEN Crashed(s, "submit", args)
         ELSE Leave([s1 EXCEPT !.faults = @ \cup {"use after free"}],
                    "submit", args, "ok", <<>>)
    ELSE IF outcome = "submit"
    THEN Leave(s1, "submit", args, "Failed to submit Vulkan command buffer", <<>>)
    ELSE IF swapchain = 0 THEN Leave(s1, "submit", args, "ok", <<>>)
    ELSE Leave([s1 EXCEPT !.swapchains[swapchain].imageAvailableSemaphore = FALSE,
                          !.swapchains[swapchain].renderFinishedSemaphore = TRUE,
                          !.swapchains[swapchain].inFlightFence = "signaled"],
               "submit", args, "ok", <<>>)

vkQueueSubmit(s, i, d, cb, targetsSwapchain, imageIndex, outcome, ub) ==
    LET args == <<i, d, cb>>
        r == Require(requireDevice(s, i, d)
                        \o requireResource(s, "commandBuffers", d, cb, "command buffer")) IN
    IF r # "ok" THEN Throw(s, "submit", args, r)
    ELSE LET s1 == IF targetsSwapchain
                   THEN [Enter(s) EXCEPT !.commandBuffers[cb].imageIndex = imageIndex]
                   ELSE Enter(s)
         IN submitCommandBufferInternal(
               s1, d, cb, IF targetsSwapchain THEN s.commandBuffers[cb].swapchain ELSE 0,
               args, outcome, ub)

requireSwapchain(s, i, d, f, c) ==
    requireDevice(s, i, d)
        \o <<<<hasSurface(s, i, f), "Invalid surface handle">>,
             <<hasSwapchain(s, f, c), "Invalid swapchain handle">>>>

\* an acquire that fills the frame's texture handle from the view handles
acquireFrameInternal_viewAsTexture(s, d, c, args, imageIndex, outcome) ==
    LET w == s.swapchains[c]
        s1 == vkUse(Enter(s), "vkWaitForFences", "VkFence", c, d) IN
    IF w.inFlightFence # "signaled"
    THEN \* nothing will signal the fence: the wait has no timeout
         Leave(s1, "acquireFrame", args, "blocked", <<>>)
    ELSE LET s2 == vkUse(vkUse(s1, "vkResetFences", "VkFence", c, d),
                         "acquireNextImageKHR", "VkSwapchainKHR", c, d)
             s3 == [s2 EXCEPT !.swapchains[c].inFlightFence = "unsignaled"]
         IN IF outcome = "outOfDate"
            THEN Leave(s3, "acquireFrame", args,
                       "Swapchain out of date, recreation required", <<>>)
            ELSE IF outcome = "suboptimal"
            THEN \* VK_SUBOPTIMAL_KHR: the backend did hand out the image
                 Leave([s3 EXCEPT !.swapchains[c].imageAvailableSemaphore = TRUE,
                                  !.swapchains[c].acquired = @ \cup {imageIndex}],
                       "acquireFrame", args,
                       "Swapchain out of date, recreation required", <<>>)
            ELSE IF outcome = "error"
            THEN Leave(s3, "acquireFrame", args, "Failed to acquire swapchain image", <<>>)
            ELSE Leave([s3 EXCEPT !.swapchains[c].imageAvailableSemaphore = TRUE,
                                  !.swapchains[c].acquired = @ \cup {imageIndex}],
                       "acquireFrame", args, "ok",
                       <<imageIndex, w.textureViewIds[imageIndex + 1],
                         w.textureViewIds[imageIndex + 1]>>)

\* an acquire that takes VK_SUBOPTIMAL_KHR for success
acquireFrameInternal_acceptsSuboptimal(s, d, c, args, imageIndex, outcome) ==
    LET w == s.swapchains[c]
        s1 == vkUse(Enter(s), "vkWaitForFences", "VkFence", c, d) IN
    IF w.inFlightFence # "signaled"
    THEN \* nothing will signal the fence: the wait has no timeout
         Leave(s1, "acquireFrame", args, "blocked", <<>>)
    ELSE LET s2 == vkUse(vkUse(s1, "vkResetFences", "VkFence", c, d),
                         "acquireNextImageKHR", "VkSwapchainKHR", c, d)
             s3 == [s2 EXCEPT !.swapchains[c].inFlightFence = "unsignaled"]
         IN IF outcome = "outOfDate"
            THEN Leave(s3, "acquireFrame", args,
                       "Swapchain out of date, recreation required", <<>>)
            ELSE IF outcome = "error"
            THEN Leave(s3, "acquireFrame", args, "Failed to acquire swapchain image", <<>>)
            ELSE Leave([s3 EXCEPT !.swapchains[c].imageAvailableSemaphore = TRUE,
                                  !.swapchains[c].acquired = @ \cup {imageIndex}],
                       "acquireFrame", args, "ok",
                       <<imageIndex, w.textureIds[imageIndex + 1],
                         w.textureViewIds[imageIndex + 1]>>)

\* imageIndex is the image the backend hands out
\* an acquire that does not wait for the in-flight fence
acquireFrameInternal_noWait(s, d, c, args, imageIndex, outcome) ==
    LET w == s.swapchains[c]
        s1 == vkUse(Enter(s), "vkWaitForFences", "VkFence", c, d) IN
    IF FALSE
    THEN \* nothing will signal the fence: the wait has no timeout
         Leave(s1, "acquireFrame", args, "blocked", <<>>)
    ELSE LET s2 == vkUse(vkUse(s1, "vkResetFences", "VkFence", c, d),
                         "acquireNextImageKHR", "VkSwapchainKHR", c, d)
             s3 == [s2 EXCEPT !.swapchains[c].inFlightFence = "unsignaled"]
         IN IF outcome = "outOfDate"
            THEN Leave(s3, "acquireFrame", args,
                       "Swapchain out of date, recreation required", <<>>)
            ELSE IF outcome = "suboptimal"
            THEN \* VK_SUBOPTIMAL_KHR: the backend did hand out the image
                 Leave([s3 EXCEPT !.swapchains[c].imageAvailableSemaphore = TRUE,
                                  !.swapchains[c].acquired = @ \cup {imageIndex}],
                       "acquireFrame", args,
                       "Swapchain out of date, recreation required", <<>>)
            ELSE IF outcome = "error"
            THEN Leave(s3, "acquireFrame", args, "Failed to acquire swapchain image", <<>>)
            ELSE Leave([s3 EXCEPT !.swapchains[c].imageAvailableSemaphore = TRUE,
                                  !.swapchains[c].acquired = @ \cup {imageIndex}],
                       "acquireFrame", args, "ok",
                       <<imageIndex, w.textureIds[imageIndex + 1],
                         w.textureViewIds[imageIndex + 1]>>)

\* an acquire that leaves the fence signaled when it fails
acquireFrameInternal_resetOnSuccess(s, d, c, args, imageIndex, outcome) ==
    LET w == s.swapchains[c]
        s1 == vkUse(Enter(s), "vkWaitForFences", "VkFence", c, d) IN
    IF w.inFlightFence # "signaled"
    THEN \* nothing will signal the fence: the wait has no timeout
         Leave(s1, "acquireFrame", args, "blocked", <<>>)
    ELSE LET s2 == vkUse(vkUse(s1, "vkResetFences", "VkFence", c, d),
                         "acquireNextImageKHR", "VkSwapchainKHR", c, d)
             s3 == [s2 EXCEPT !.swapchains[c].inFlightFence = "unsignaled"]
         IN IF outcome = "outOfDate"
            THEN Leave(s2, "acquireFrame", args,
                       "Swapchain out of date, recreation required", <<>>)
            ELSE IF outcome = "suboptimal"
            THEN \* VK_SUBOPTIMAL_KHR: the backend did hand out the image
                 Leave([s2 EXCEPT !.swapchains[c].imageAvailableSemaphore = TRUE,
                                  !.swapchains[c].acquired = @ \cup {imageIndex}],
                       "acquireFrame", args,
                       "Swapchain out of date, recreation required", <<>>)
            ELSE IF outcome = "error"
            THEN Leave(s2, "acquireFrame", args, "Failed to acquire swapchain image", <<>>)
            ELSE Leave([s3 EXCEPT !.swapchains[c].imageAvailableSemaphore = TRUE,
                                  !.swapchains[c].acquired = @ \cup {imageIndex}],
                       "acquireFrame", args, "ok",
                       <<imageIndex, w.textureIds[imageIndex + 1],
                         w.textureViewIds[imageIndex + 1]>>)

acquireFrameInternal(s, d, c, args, imageIndex, outcome) ==
    LET w == s.swapchains[c]
        s1 == vkUse(Enter(s), "vkWaitForFences", "VkFence", c, d) IN
    IF w.inFlightFence # "signaled"
    THEN \* nothing will signal the fence: the wait has no timeout
         Leave(s1, "acquireFrame", args, "blocked", <<>>)
    ELSE LET s2 == vkUse(vkUse(s1, "vkResetFences", "VkFence", c, d),
                         "acquireNextImageKHR", "VkSwapchainKHR", c, d)
             s3 == [s2 EXCEPT !.swapchains[c].inFlightFence = "unsignaled"]
         IN IF outcome = "outOfDate"
            THEN Leave(s3, "acquireFrame", args,
                       "Swapchain out of date, recreation required", <<>>)
            ELSE IF outcome = "suboptimal"
            THEN \* VK_SUBOPTIMAL_KHR: the backend did hand out the image
                 Leave([s3 EXCEPT !.swapchains[c].imageAvailableSemaphore = TRUE,
                                  !.swapchains[c].acquired = @ \cup {imageIndex}],
                       "acquireFrame", args,
                       "Swapchain out of date, recreation required", <<>>)
            ELSE IF outcome = "error"
            THEN Leave(s3, "acquireFrame", args, "Failed to acquire swapchain image", <<>>)
            ELSE Leave([s3 EXCEPT !.swapchains[c].imageAvailableSemaphore = TRUE,
                                  !.swapchains[c].acquired = @ \cup {imageIndex}],
                       "acquireFrame", args, "ok",
                       <<imageIndex, w.textureIds[imageIndex + 1],
                         w.textureViewIds[imageIndex + 1]>>)

acquireFrame(s, i, d, f, c, imageIndex, outcome) ==
    LET r == Require(requireSwapchain(s, i, d, f, c)) IN
    IF r # "ok" THEN Throw(s, "acquireFrame", <<i, d, f, c>>, r)
    ELSE acquireFrameInternal(s, d, c, <<i, d, f, c>>, imageIndex, outcome)

\* a present that reports an outdated surface as any other failure
presentFrameInternal_hardError(s, d, c, args, imageIndex, outcome) ==
    LET s1 == vkUse(Enter(s), "queuePresentKHR", "VkSwapchainKHR", c, d) IN
    IF outcome = "outOfDate"
    THEN Leave(s1, "presentFrame", args,
               "Failed to present swapchain image", <<>>)
    ELSE IF outcome = "suboptimal"
    THEN \* VK_SUBOPTIMAL_KHR: the backend did queue the image
         Leave([s1 EXCEPT !.swapchains[c].renderFinishedSemaphore = FALSE,
                          !.swapchains[c].acquired = @ \ {imageIndex}],
               "presentFrame", args,
               "Failed to present swapchain image", <<>>)
    ELSE IF outcome = "error"
    THEN Leave(s1, "presentFrame", args, "Failed to present swapchain image", <<>>)
    ELSE Leave([s1 EXCEPT !.swapchains[c].renderFinishedSemaphore = FALSE,
                          !.swapchains[c].acquired = @ \ {imageIndex}],
               "presentFrame", args, "ok", <<>>)

presentFrameInternal(s, d, c, args, imageIndex, outcome) ==
    LET s1 == vkUse(Enter(s), "queuePresentKHR", "VkSwapchainKHR", c, d) IN
    IF outcome = "outOfDate"
    THEN Leave(s1, "presentFrame", args,
               "Swapchain presentation failed; surface outdated", <<>>)
    ELSE IF outcome = "suboptimal"
    THEN \* VK_SUBOPTIMAL_KHR: the backend did queue the image
         Leave([s1 EXCEPT !.swapchains[c].renderFinishedSemaphore = FALSE,
                          !.swapchains[c].acquired = @ \ {imageIndex}],
               "presentFrame", args,
               "Swapchain presentation failed; surface outdated", <<>>)
    ELSE IF outcome = "error"
    THEN Leave(s1, "presentFrame", args, "Failed to present swapchain image", <<>>)
    ELSE Leave([s1 EXCEPT !.swapchains[c].renderFinishedSemaphore = FALSE,
                          !.swapchains[c].acquired = @ \ {imageIndex}],
               "presentFrame", args, "ok", <<>>)

vkSwapchainPresentFrame(s, i, d, f, c, cb, imageIndex, outcome) ==
    LET args == <<i, d, f, c, cb>>
        r == Require(requireSwapchain(s, i, d, f, c)
                        \o requireResource(s, "commandBuffers", d, cb, "command buffer")) IN
    IF r # "ok" THEN Throw(s, "presentFrame", args, r)
    ELSE presentFrameInternal(s, d, c, args, imageIndex, outcome)

\* vkFreeCommandBuffers on the allocation the encoder or wrapper refers to
destroyCommandEncoderInternal(s, d, e) ==
    IF ~hasResource(s, "commandEncoders", d, e) THEN s
    ELSE vkDestroy(removeObject(s, "commandEncoders", e), "vkFreeCommandBuffers",
                   "VkCommandBuffer", s.commandEncoders[e].commandBuffer, d)

vkDestroyCommandEncoder(s, i, d, e) ==
    LET r == Require(requireDevice(s, i, d)) IN
    IF r # "ok" THEN Throw(s, "destroyCommandEncoder", <<i, d, e>>, r)
    ELSE Leave(destroyCommandEncoderInternal(Enter(s), d, e),
               "destroyCommandEncoder", <<i, d, e>>, "ok", <<>>)

destroyCommandBufferInternal(s, d, cb) ==
    IF ~hasResource(s, "commandBuffers", d, cb) THEN s
    ELSE vkDestroy(removeObject(s, "commandBuffers", cb), "vkFreeCommandBuffers",
                   "VkCommandBuffer", s.commandBuffers[cb].commandBuffer, d)

vkDestroyCommandBuffer(s, i, d, cb) ==
    LET r == Require(requireDevice(s, i, d)) IN
    IF r # "ok" THEN Throw(s, "destroyCommandBuffer", <<i, d, cb>>, r)
    ELSE Leave(destroyCommandBufferInternal(Enter(s), d, cb),
               "destroyCommandBuffer", <<i, d, cb>>, "ok", <<>>)

---------------------------------------------------------------------------
(* Runs that start from a device with resources on it. *)

\* the creates that populate a device, in the order the scenes make them
SceneSteps ==
    <<"shaderModule", "bindGroupLayout", "pipelineLayout", "renderPipeline",
      "buffer", "sampler", "texture", "textureView", "bindGroup",
      "commandEncoder", "finish", "swapchain">>

\* the one handle of table t, in a scene that has one
The(s, t) == CHOOSE x \in DOMAIN s[t] : TRUE

sceneStep(s, step) ==
    LET i == The(s, "g_instances")
        d == The(s, "devices")
    IN CASE step = "shaderModule" -> vkCreateShaderModule(s, i, d, "ok")
         [] step = "bindGroupLayout" -> vkCreateBindGroupLayout(s, i, d, "ok")
         [] step = "pipelineLayout" ->
               vkCreatePipelineLayout(s, i, d, <<The(s, "bindGroupLayouts")>>, "ok")
         [] step = "renderPipeline" ->
               vkCreateRenderPipeline(s, i, d, The(s, "pipelineLayouts"),
                                      The(s, "shaderModules"), The(s, "shaderModules"), "ok")
         [] step = "buffer" -> vkCreateBuffer(s, i, d, "ok")
         [] step = "sampler" -> vkCreateSampler(s, i, d, "ok")
         [] step = "texture" -> vkCreateTexture(s, i, d, "ok")
         [] step = "textureView" -> vkCreateTextureView(s, i, d, The(s, "textures"), "ok")
         [] step = "bindGroup" -> vkCreateBindGroup(s, i, d, The(s, "bindGroupLayouts"), "ok")
         [] step = "commandEncoder" -> vkCreateCommandEncoder(s, i, d, "ok")
         [] step = "finish" -> vkCommandEncoderFinish(s, i, d, The(s, "commandEncoders"), "ok")
         [] step = "swapchain" -> createSwapchain(s, i, d, The(s, "surfaces"), 1, "ok")

RECURSIVE DeviceScene(_)
\* the scene after the first k steps
DeviceScene(k) ==
    IF k = 0 THEN [Scene EXCEPT !.budget = Len(SceneSteps)]
    ELSE sceneStep(DeviceScene(k - 1), SceneSteps[k])

InitDev == \E k \in 0..Len(SceneSteps) : Is([DeviceScene(k) EXCEPT !.budget = MaxDevId])

InitUse == Is([DeviceScene(Len(SceneSteps)) EXCEPT !.budget = MaxUseId])

\* the handles of table t a caller can pass with device d: those it was
\* given for that device, or 0
Res(t, d) == {0} \cup {e.id : e \in {x \in IssuedOf(t) : x.owner.device = d}}

CreateBuffer ==
    /\ Running /\ CanIssue(1)
    /\ \E a \in DeviceArgs, outcome \in {"ok", "memory"} :
          Becomes(vkCreateBuffer(State, a[1], a[2], outcome))

CreateShaderModule ==
    /\ Running /\ CanIssue(1)
    /\ \E a \in DeviceArgs, outcome \in {"ok", "shaderModule"} :
          Becomes(vkCreateShaderModule(State, a[1], a[2], outcome))

CreateSampler ==
    /\ Running /\ CanIssue(1)
    /\ \E a \in DeviceArgs, outcome \in {"ok", "sampler"} :
          Becomes(vkCreateSampler(State, a[1], a[2], outcome))

CreateTexture ==
    /\ Running /\ CanIssue(1)
    /\ \E a \in DeviceArgs, outcome \in {"ok", "memory"} :
          Becomes(vkCreateTexture(State, a[1], a[2], outcome))

CreateTextureView ==
    /\ Running /\ CanIssue(1)
    /\ \E a \in DeviceArgs, outcome \in {"ok", "imageView"} :
          \E x \in Res("textures", a[2]) :
             Becomes(vkCreateTextureView(State, a[1], a[2], x, outcome))

CreateBindGroupLayout ==
    /\ Running /\ CanIssue(1)
    /\ \E a \in DeviceArgs, outcome \in {"ok", "layout"} :
          Becomes(vkCreateBindGroupLayout(State, a[1], a[2], outcome))

CreateBindGroup ==
    /\ Running /\ CanIssue(1)
    /\ \E a \in DeviceArgs, outcome \in {"ok", "descriptorSet"} :
          \E x \in Res("bindGroupLayouts", a[2]) :
             Becomes(vkCreateBindGroup(State, a[1], a[2], x, outcome))

CreatePipelineLayout ==
    /\ Running /\ CanIssue(1)
    /\ \E a \in DeviceArgs, outcome \in {"ok", "layout"} :
          \E layouts \in {<<>>} \cup {<<x>> : x \in Res("bindGroupLayouts", a[2])} :
             Becomes(vkCreatePipelineLayout(State, a[1], a[2], layouts, outcome))

CreateRenderPipeline ==
    /\ Running /\ CanIssue(1)
    /\ \E a \in DeviceArgs, outcome \in {"ok", "pipeline"} :
          \E pl \in Res("pipelineLayouts", a[2]), sh \in Res("shaderModules", a[2]) :
             Becomes(vkCreateRenderPipeline(State, a[1], a[2], pl, sh, sh, outcome))

CreateCommandEncoder ==
    /\ Running /\ CanIssue(1)
    /\ \E a \in DeviceArgs, outcome \in {"ok", "allocate"} :
          Becomes(vkCreateCommandEncoder(State, a[1], a[2], outcome))

Finish ==
    /\ Running /\ CanIssue(1)
    /\ \E a \in DeviceArgs, outcome \in {"ok", "end"} :
          \E e \in Res("commandEncoders", a[2]) :
             Becomes(vkCommandEncoderFinish(State, a[1], a[2], e, outcome))

DestroyCommandEncoder ==
    /\ Running
    /\ \E a \in DeviceArgs : \E e \in Res("commandEncoders", a[2]) :
          Becomes(vkDestroyCommandEncoder(State, a[1], a[2], e))

DestroyCommandBuffer ==
    /\ Running
    /\ \E a \in DeviceArgs : \E cb \in Res("commandBuffers", a[2]) :
          Becomes(vkDestroyCommandBuffer(State, a[1], a[2], cb))

NextDev ==
    \/ CreateBuffer
    \/ CreateShaderModule
    \/ CreateSampler
    \/ CreateTexture
    \/ CreateTextureView
    \/ CreateBindGroupLayout
    \/ CreateBindGroup
    \/ CreatePipelineLayout
    \/ CreateRenderPipeline
    \/ CreateCommandEncoder
    \/ Finish
    \/ DestroyCommandEncoder
    \/ DestroyCommandBuffer
    \/ DestroySwapchain
    \/ DestroyDevice

SpecDev == InitDev /\ [][NextDev]_vars

---------------------------------------------------------------------------
(* Runs that encode, submit and present on a device with resources on it. *)

\* the images of a swapchain of MaxImages images
ImageIndices == 0..(MaxImages - 1)

BeginRenderPass ==
    /\ Running /\ CanIssue(1)
    /\ \E a \in DeviceArgs, isSwapchain \in BOOLEAN, outcome \in {"ok", "framebuffer"} :
          \E e \in Res("commandEncoders", a[2]), p \in Res("renderPipelines", a[2]),
             v \in Res("textureViews", a[2]), imageIndex \in ImageIndices :
             Becomes(vkCommandEncoderBeginRenderPass(State, a[1], a[2], e, p, v,
                                                     isSwapchain, imageIndex, outcome))

EndRenderPass ==
    /\ Running
    /\ \E a \in DeviceArgs, ub \in BadPointer :
          \E rp \in Res("renderPassEncoders", a[2]) :
             Becomes(vkCommandEncoderEndRenderPass(State, a[1], a[2], rp, ub))

SetPipeline ==
    /\ Running
    /\ \E a \in DeviceArgs :
          \E e \in Res("commandEncoders", a[2]), p \in Res("renderPipelines", a[2]) :
             Becomes(vkCommandEncoderSetPipeline(State, a[1], a[2], e, p))

SetVertexBuffer ==
    /\ Running
    /\ \E a \in DeviceArgs :
          \E e \in Res("commandEncoders", a[2]), b \in Res("buffers", a[2]) :
             Becomes(vkCommandEncoderSetVertexBuffer(State, a[1], a[2], e, b))

SetIndexBuffer ==
    /\ Running
    /\ \E a \in DeviceArgs :
          \E e \in Res("commandEncoders", a[2]), b \in Res("buffers", a[2]) :
             Becomes(vkCommandEncoderSetIndexBuffer(State, a[1], a[2], e, b))

SetBindGroup ==
    /\ Running
    /\ \E a \in DeviceArgs, ub \in BadPointer :
          \E e \in Res("commandEncoders", a[2]), g \in Res("bindGroups", a[2]) :
             Becomes(vkCommandEncoderSetBindGroup(State, a[1], a[2], e, g, ub))

Draw ==
    /\ Running
    /\ \E a \in DeviceArgs : \E e \in Res("commandEncoders", a[2]) :
          Becomes(vkCommandEncoderDraw(State, a[1], a[2], e))

DrawIndexed ==
    /\ Running
    /\ \E a \in DeviceArgs : \E e \in Res("commandEncoders", a[2]) :
          Becomes(vkCommandEncoderDrawIndexed(State, a[1], a[2], e))

QueueSubmit ==
    /\ Running
    /\ \E a \in DeviceArgs, targetsSwapchain \in BOOLEAN, outcome \in {"ok", "submit"},
          ub \in BadPointer :
          \E cb \in Res("commandBuffers", a[2]), imageIndex \in ImageIndices :
             Becomes(vkQueueSubmit(State, a[1], a[2], cb, targetsSwapchain, imageIndex,
                                   outcome, ub))

\* what acquireNextImageKHR and queuePresentKHR can report
AcquireOutcomes == {"ok", "outOfDate", "suboptimal", "error"}

PresentOutcomes == {"ok", "outOfDate", "suboptimal", "error"}

AcquireFrame ==
    /\ Running
    /\ \E a \in SwapchainArgs, imageIndex \in ImageIndices,
          outcome \in AcquireOutcomes :
          \* the backend hands out an image of the swapchain
          /\ a[4] \in DOMAIN swapchains => imageIndex < Len(swapchains[a[4]].textureIds)
          /\ Becomes(acquireFrame(State, a[1], a[2], a[3], a[4], imageIndex, outcome))

PresentFrame ==
    /\ Running
    /\ \E a \in SwapchainArgs, imageIndex \in ImageIndices,
          outcome \in PresentOutcomes :
          \E cb \in Res("commandBuffers", a[2]) \cup Res("commandBuffers", 0) :
             Becomes(vkSwapchainPresentFrame(State, a[1], a[2], a[3], a[4], cb,
                                             imageIndex, outcome))

NextUse ==
    \/ BeginRenderPass
    \/ EndRenderPass
    \/ SetPipeline
    \/ SetVertexBuffer
    \/ SetIndexBuffer
    \/ SetBindGroup
    \/ Draw
    \/ DrawIndexed
    \/ Finish
    \/ QueueSubmit
    \/ AcquireFrame
    \/ PresentFrame
    \/ DestroyCommandEncoder
    \/ DestroyCommandBuffer
    \/ DestroySwapchain
    \/ DestroySurface
    \/ DestroyDevice

SpecUse == InitUse /\ [][NextUse]_vars

---------------------------------------------------------------------------
(* resizeSwapchain, and runs of the frame cycle on one swapchain. *)

\* the first half of a resize: the device goes idle, then everything the
\* swapchain owns is destroyed; the swapchain stays in the table
swapchainTeardown(s, c) ==
    LET w == s.swapchains[c]
        d == w.device
        s1 == vkDeviceWaitIdle(s, d)
        s2 == vkDestroy(s1, "vkDestroyFence", "VkFence", c, d)
        s3 == vkDestroy(s2, "vkDestroySemaphore", "VkSemaphore.renderFinished", c, d)
        s4 == vkDestroy(s3, "vkDestroySemaphore", "VkSemaphore.imageAvailable", c, d)
        s5 == vkDestroyEach(s4, "vkDestroyFramebuffer", "VkFramebuffer", w.textureViewIds, d)
        s6 == vkDestroy(s5, "vkDestroyRenderPass", "VkRenderPass", c, d)
        s7 == vkDestroyEach(s6, "vkDestroyImageView", "VkImageView", w.textureViewIds, d)
    IN vkDestroy(s7, "vkDestroySwapchainKHR", "VkSwapchainKHR", c, d)

\* the second half: the construction of createSwapchain, into the handle c
swapchainRebuild(s, c, n) ==
    LET w == s.swapchains[c]
        d == w.device
        s2 == vkCreate(vkCreate(s, "VkSwapchainKHR", c, d), "VkRenderPass", c, d)
        b == swapchainImages([s |-> s2, textureIds |-> <<>>, textureViewIds |-> <<>>,
                              failed |-> ""], d, n, "ok")
        s3 == vkCreate(vkCreate(b.s, "VkSemaphore.imageAvailable", c, d),
                       "VkSemaphore.renderFinished", c, d)
        s4 == vkCreate(s3, "VkFence", c, d)
    IN [unfenced |-> s3,
        built |-> {o \in s3.backend :
                      \/ o.t \in SwapchainObjects /\ o.id = c
                      \/ o.t \in {"VkImageView", "VkFramebuffer"}
                            /\ o.id \in Range(b.textureViewIds)},
        done |-> [s4 EXCEPT !.swapchains[c] =
                     [surface |-> w.surface, device |-> d,
                      textureIds |-> b.textureIds,
                      textureViewIds |-> b.textureViewIds,
                      inFlightFence |-> "signaled",
                      imageAvailableSemaphore |-> FALSE,
                      renderFinishedSemaphore |-> FALSE,
                      acquired |-> {}]]]

\* a resize that leaves the swapchain registered when the rebuild fails
resizeSwapchainInternal_exposed(s, c, n, args, outcome) ==
    LET s1 == swapchainTeardown(s, c)
        r == swapchainRebuild(s1, c, n)
    IN IF outcome = "swapchain"
       THEN Leave(s1, "resizeSwapchain", args, "Failed to create swapchain", <<>>)
       ELSE IF outcome = "fence"
       THEN Leave(r.unfenced, "resizeSwapchain", args,
                  "Failed to create swapchain fence", <<>>)
       ELSE Leave(r.done, "resizeSwapchain", args, "ok", <<>>)

\* teardown, then rebuild; a rebuild that fails leaves no swapchain
\* registered under the handle
resizeSwapchainInternal(s, c, n, args, outcome) ==
    LET s1 == swapchainTeardown(s, c)
        r == swapchainRebuild(s1, c, n)
    IN IF outcome = "swapchain"
       THEN Leave(removeObject(s1, "swapchains", c), "resizeSwapchain", args,
                  "Failed to create swapchain", <<>>)
       ELSE IF outcome = "fence"
       THEN Leave(leak(removeObject(r.unfenced, "swapchains", c), r.built),
                  "resizeSwapchain", args, "Failed to create swapchain fence", <<>>)
       ELSE Leave(r.done, "resizeSwapchain", args, "ok", <<>>)

resizeSwapchain(s, i, d, f, c, n, outcome) ==
    LET args == <<i, d, f, c>>
        r == Require(requireSwapchain(s, i, d, f, c)) IN
    IF r # "ok" THEN Throw(s, "resizeSwapchain", args, r)
    ELSE resizeSwapchainInternal(Enter(s), c, n, args, outcome)

MaxFrameId == 2

\* the device scene with a second encoder whose render pass targeted the
\* image of the swapchain, finished into a command buffer
FrameScene ==
    LET s0 == DeviceScene(Len(SceneSteps))
        i == The(s0, "g_instances")
        d == The(s0, "devices")
        c == The(s0, "swapchains")
        s1 == vkCreateCommandEncoder(s0, i, d, "ok")
        e == s1.last.ret[1]
        s2 == vkCommandEncoderBeginRenderPass(
                 s1, i, d, e, The(s0, "renderPipelines"),
                 s0.swapchains[c].textureViewIds[1], TRUE, 0, "ok")
        s3 == vkCommandEncoderEndRenderPass(s2, i, d, s2.last.ret[1], "garbage")
    IN vkCommandEncoderFinish(s3, i, d, e, "ok")

InitFrame == Is([FrameScene EXCEPT !.budget = MaxFrameId])

ResizeSwapchain ==
    /\ Running
    /\ \E n \in 1..MaxImages :
          /\ CanIssue(2 * n)
          /\ \E a \in SwapchainArgs, outcome \in {"ok", "swapchain", "fence"} :
                Becomes(resizeSwapchain(State, a[1], a[2], a[3], a[4], n, outcome))

NextFrame ==
    \/ AcquireFrame
    \/ QueueSubmit
    \/ PresentFrame
    \/ ResizeSwapchain
    \/ DestroySwapchain

SpecFrame == InitFrame /\ [][NextFrame]_vars

\* render passes begun and encoders finished on the device scene
MaxEncodeId == 3

InitEncode == Is([DeviceScene(Len(SceneSteps)) EXCEPT !.budget = MaxEncodeId])

NextEncode ==
    \/ BeginRenderPass
    \/ Finish

SpecEncode == InitEncode /\ [][NextEncode]_vars

\* the frame cycle without resizes
NextCycle ==
    \/ AcquireFrame
    \/ QueueSubmit
    \/ PresentFrame
    \/ DestroySwapchain

SpecCycle == InitFrame /\ [][NextCycle]_vars

\* textures and swapchains on an instance with two devices, and its teardown
NextTextures ==
    \/ CreateTexture
    \/ CreateSwapchain
    \/ DestroySwapchain
    \/ DestroyDevice
    \/ DestroyInstance

SpecTextures == InitTwo /\ [][NextTextures]_vars

\* frames of the swapchains of one surface, on an instance with two devices
NextSiblings ==
    \/ CreateSwapchain
    \/ AcquireFrame
    \/ DestroySwapchain

SpecSiblings == InitTwo /\ [][NextSiblings]_vars

---------------------------------------------------------------------------
(* Swapchain geometry and physical-device selection: functions of what the *)
(* backend reports.                                                         *)

\* a uint32_t is kept as its two 16-bit halves, the upper one first; this
\* is the uint32_t of value n, for n below 2^31
uint32_t(n) == <<n \div 65536, n % 65536>>

\* std::numeric_limits<uint32_t>::max()
UINT32_MAX == <<65535, 65535>>

\* a < b on uint32_t
Less(a, b) == a[1] < b[1] \/ (a[1] = b[1] /\ a[2] < b[2])

\* a + 1 on uint32_t, which wraps to 0 after UINT32_MAX
PlusOne(a) ==
    IF a[2] < 65535 THEN <<a[1], a[2] + 1>>
    ELSE IF a[1] < 65535 THEN <<a[1] + 1, 0>>
    ELSE <<0, 0>>

\* std::min and std::max on uint32_t
min(a, b) == IF Less(b, a) THEN b ELSE a

max(a, b) == IF Less(a, b) THEN b ELSE a

\* an extent selection that takes the requested size as it is
chooseExtent_requested(caps, width, height) ==
    IF caps.currentExtent.width # UINT32_MAX THEN caps.currentExtent
    ELSE [width |-> width, height |-> height]

chooseExtent(caps, width, height) ==
    IF caps.currentExtent.width # UINT32_MAX THEN caps.currentExtent
    ELSE [width |-> max(caps.minImageExtent.width, min(caps.maxImageExtent.width, width)),
          height |-> max(caps.minImageExtent.height,
                         min(caps.maxImageExtent.height, height))]

\* an image-count selection that does not look at maxImageCount
selectImageCount_unclamped(caps) == PlusOne(caps.minImageCount)

selectImageCount(caps) ==
    LET count == PlusOne(caps.minImageCount)
    IN IF Less(uint32_t(0), caps.maxImageCount) /\ Less(caps.maxImageCount, count)
       THEN caps.maxImageCount
       ELSE count

\* the queue families of a physical device that the loop of
\* createDeviceInternal accepts: graphics-capable and, when the instance has
\* a surface, presenting to the first one
acceptedFamilies(candidate, hasSurfaces) ==
    {i \in DOMAIN candidate.queueFamilies :
        /\ candidate.queueFamilies[i].graphics
        /\ hasSurfaces => candidate.queueFamilies[i].present}

\* the physical device and queue family createDeviceInternal settles on, by
\* index from 0, or the exception it throws
selectPhysicalDevice(physicalDevices, requestDiscrete, hasSurfaces) ==
    LET selected == {k \in DOMAIN physicalDevices :
                        /\ requestDiscrete => physicalDevices[k].discrete
                        /\ acceptedFamilies(physicalDevices[k], hasSurfaces) # {}}
    IN IF physicalDevices = <<>>
       THEN [result |-> "No Vulkan devices available", ret |-> <<>>]
       ELSE IF selected = {}
       THEN [result |-> "ok", ret |-> <<0, 0>>]
       ELSE LET k == Sorted(selected)[1]
            IN [result |-> "ok",
                ret |-> <<k - 1,
                          Sorted(acceptedFamilies(physicalDevices[k], hasSurfaces))[1] - 1>>]

\* image counts a surface may report, up to MaxCount and at the top of the
\* range
MaxCount == 3

Counts == {uint32_t(n) : n \in 0..MaxCount} \cup {<<65535, 65534>>, UINT32_MAX}

\* widths and heights a caller may ask for
Extents == {1, 600, 800, 4096, 6000, 8000}

Extent2D(w, h) == [width |-> uint32_t(w), height |-> uint32_t(h)]

\* the extents of the capabilities of a surface; currentExtent is either a
\* size or (0xFFFFFFFF, 0xFFFFFFFF)
ExtentCapabilities ==
    [currentExtent : {[width |-> UINT32_MAX, height |-> UINT32_MAX],
                      Extent2D(800, 600), Extent2D(1, 1)},
     minImageExtent : {Extent2D(1, 1), Extent2D(600, 800)},
     maxImageExtent : {Extent2D(4096, 4096), Extent2D(800, 6000)}]

ChooseExtent ==
    \E caps \in ExtentCapabilities, width \in Extents, height \in Extents :
       Becomes(Leave(Enter(State), "chooseExtent",
                     <<caps, uint32_t(width), uint32_t(height)>>, "ok",
                     <<chooseExtent(caps, uint32_t(width), uint32_t(height))>>))

SelectImageCount ==
    \E caps \in [minImageCount : Counts, maxImageCount : Counts] :
       Becomes(Leave(Enter(State), "selectImageCount", <<caps>>, "ok",
                     <<selectImageCount(caps)>>))

NextGeometry ==
    \/ ChooseExtent
    \/ SelectImageCount

SpecGeometry == Init /\ [][NextGeometry]_vars

\* physical devices the backend may enumerate, and queue families of one
MaxPhysicalDevices == 2

MaxQueueFamilies == 2

SeqsUpTo(S, n) == UNION {[1..k -> S] : k \in 0..n}

PhysicalDevices ==
    [discrete : BOOLEAN,
     queueFamilies : SeqsUpTo([graphics : BOOLEAN, present : BOOLEAN], MaxQueueFamilies)]

\* kreekt::vk::createDevice passes requestDiscrete = true; the selection
\* reads nothing but what the backend enumerates, so one call from the start
\* stands for every call
SelectPhysicalDevice ==
    \E physicalDevices \in SeqsUpTo(PhysicalDevices, MaxPhysicalDevices),
       hasSurfaces \in BOOLEAN :
       LET r == selectPhysicalDevice(physicalDevices, TRUE, hasSurfaces)
       IN /\ last.op = "init"
          /\ Becomes(Leave(Enter(State), "selectPhysicalDevice",
                        <<physicalDevices, hasSurfaces>>, r.result, r.ret))

SpecSelect == Init /\ [][SelectPhysicalDevice]_vars

---------------------------------------------------------------------------
(* The registry lock, and threads inside the public entry points. *)

\* threads that call into the library
MaxThreads == 2

Threads == 1..MaxThreads

\* the functions of namespace kreekt::vk
KreektEntryPoints ==
    {"kreekt::vk::createInstance", "kreekt::vk::createSurface", "kreekt::vk::createDevice",
     "kreekt::vk::createSwapchain", "kreekt::vk::acquireFrame", "kreekt::vk::presentFrame",
     "kreekt::vk::destroySwapchain", "kreekt::vk::destroySurface",
     "kreekt::vk::destroyDevice", "kreekt::vk::destroyInstance", "kreekt::vk::destroyAll"}

\* the JNI exports that only forward to a function of kreekt::vk that is
\* defined, with the function each calls; vkDestroySurface is the export of
\* jni_bridge.cpp, the others are those of vulkan_bridge.cpp
Callee ==
    [e \in {"vkInit", "vkCreateSurface", "vkCreateDevice", "vkCreateSwapchain",
            "vkDestroySurface", "vkDestroyInstance", "vkDestroyAll"} |->
        CASE e = "vkInit" -> "kreekt::vk::createInstance"
          [] e = "vkCreateSurface" -> "kreekt::vk::createSurface"
          [] e = "vkCreateDevice" -> "kreekt::vk::createDevice"
          [] e = "vkCreateSwapchain" -> "kreekt::vk::createSwapchain"
          [] e = "vkDestroySurface" -> "kreekt::vk::destroySurface"
          [] e = "vkDestroyInstance" -> "kreekt::vk::destroyInstance"
          [] e = "vkDestroyAll" -> "kreekt::vk::destroyAll"]

\* the JNI exports that resolve handles and call the internal helpers
\* themselves
InlineExports ==
    {"vkSwapchainAcquireFrame", "vkSwapchainPresentFrame", "vkCreateBuffer",
     "vkWriteBuffer", "vkWriteBufferFloats", "vkCreateShaderModule", "vkCreateSampler",
     "vkCreateTexture", "vkCreateTextureView", "vkCreateBindGroupLayout",
     "vkCreateBindGroup", "vkCreatePipelineLayout", "vkCreateRenderPipeline",
     "vkCreateCommandEncoder", "vkCommandEncoderBeginRenderPass",
     "vkCommandEncoderEndRenderPass", "vkCommandEncoderSetPipeline",
     "vkCommandEncoderSetVertexBuffer", "vkCommandEncoderSetIndexBuffer",
     "vkCommandEncoderSetBindGroup", "vkCommandEncoderDraw",
     "vkCommandEncoderDrawIndexed", "vkCommandEncoderFinish", "vkQueueSubmit",
     "vkDestroyCommandBuffer", "vkDestroyCommandEncoder"}

EntryPoints == KreektEntryPoints \cup DOMAIN Callee \cup InlineExports

\* the entry points whose body opens with
\* std::lock_guard<std::mutex> lock(g_registryMutex)
Locking ==
    {"kreekt::vk::createInstance", "kreekt::vk::createSurface", "kreekt::vk::createDevice",
     "kreekt::vk::createSwapchain", "vkCreateSurface", "vkCreateDevice",
     "vkCreateSwapchain", "vkDestroyInstance", "vkDestroyAll"} \cup InlineExports

\* a thread is a stack of frames, the innermost first; a frame is at "enter"
\* before the first statement of its function, at "tables" while the
\* function resolves handles and works on what they name, and at "return"
\* when only its epilogue is left
Frame(fn, pc) == [fn |-> fn, pc |-> pc]

InitLock == Is([Fresh EXCEPT !.threads = [t \in Threads |-> <<>>]])

\* the frames of a function that is past its first statement: a forwarding
\* export has called into kreekt::vk, any other function is at its lookups
Entered(fn) ==
    IF fn \in DOMAIN Callee THEN <<Frame(Callee[fn], "enter"), Frame(fn, "return")>>
    ELSE <<Frame(fn, "tables")>>

ThreadCall ==
    \E t \in DOMAIN threads, e \in EntryPoints :
       /\ threads[t] = <<>>
       /\ Becomes([State EXCEPT !.threads[t] = <<Frame(e, "enter")>>])

\* std::mutex::lock: the thread waits until the lock is free.  A thread that
\* already holds the lock waits for itself.
ThreadLock ==
    \E t \in DOMAIN threads :
       /\ threads[t] # <<>>
       /\ Head(threads[t]).pc = "enter" /\ Head(threads[t]).fn \in Locking
       /\ g_registryMutex = 0
       /\ Becomes([State EXCEPT !.g_registryMutex = t,
                                !.threads[t] = Entered(Head(@).fn) \o Tail(@)])

\* a function that takes no lock goes on at once
ThreadEnter ==
    \E t \in DOMAIN threads :
       /\ threads[t] # <<>>
       /\ Head(threads[t]).pc = "enter" /\ Head(threads[t]).fn \notin Locking
       /\ Becomes([State EXCEPT !.threads[t] = Entered(Head(@).fn) \o Tail(@)])

\* the function is done with the tables
ThreadAccess ==
    \E t \in DOMAIN threads :
       /\ threads[t] # <<>>
       /\ Head(threads[t]).pc = "tables"
       /\ Becomes([State EXCEPT !.threads[t] = <<Frame(Head(@).fn, "return")>> \o Tail(@)])

\* the function returns; the destructor of its lock_guard unlocks
ThreadReturn ==
    \E t \in DOMAIN threads :
       /\ threads[t] # <<>>
       /\ Head(threads[t]).pc = "return"
       /\ Becomes([State EXCEPT
                      !.threads[t] = Tail(@),
                      !.g_registryMutex = IF Head(threads[t]).fn \in Locking THEN 0 ELSE @])

NextLock ==
    \/ ThreadCall
    \/ ThreadLock
    \/ ThreadEnter
    \/ ThreadAccess
    \/ ThreadReturn

SpecLock == InitLock /\ [][NextLock]_vars

---------------------------------------------------------------------------
(* Properties of the handle registry. *)

IssuedIds == {issued[k].id : k \in DOMAIN issued}

CreateOps == {"createInstance", "createSurface", "createDevice", "createSwapchain"}

\* C1: the handles returned by creates are non-zero, pairwise distinct and
\* strictly increasing in creation order, a create returns the handle it
\* registered last, and no handle resolves in two tables or resolves without
\* having been returned, so a create never returns a handle that is live.
C1_HandlesDistinctIncreasing ==
    /\ \A k \in DOMAIN issued : issued[k].id # 0
    /\ \A j, k \in DOMAIN issued : j < k => issued[j].id < issued[k].id
    /\ LiveIds(State) \subseteq IssuedIds
    /\ \A t1, t2 \in TableNames : t1 # t2 => DOMAIN State[t1] \cap DOMAIN State[t2] = {}
    /\ (last.op \in CreateOps /\ last.result = "ok") =>
          /\ last.ret[1] = issued[Len(issued)].id
          /\ last.ret[1] \in LiveIds(State)

\* several creates of one kind under one parent, after a release
C1_Witness ==
    /\ last.op \in CreateOps /\ last.result = "ok"
    /\ \E j, k \in DOMAIN issued :
          /\ j < k
          /\ issued[j].kind = issued[k].kind /\ issued[j].owner = issued[k].owner
          /\ issued[k].owner.instance # 0
    /\ IssuedIds \ LiveIds(State) # {}

\* C2: a handle that was returned and no longer resolves in any table does
\* not resolve in any later state, whatever is created afterwards.
C2_ReleasedNeverResolves ==
    [][\A h \in IssuedIds : h \notin LiveIds(State) => h \notin LiveIds(State)']_vars

\* a handle was released and objects were created after that
C2_Witness ==
    \E j, k \in DOMAIN issued :
        /\ j < k
        /\ issued[j].id \notin LiveIds(State)
        /\ issued[k].id \in LiveIds(State)
        /\ last.op \in CreateOps /\ last.result = "ok"

---------------------------------------------------------------------------
(* Properties of instance teardown. *)

\* the positions of the call log c at which fn was called on handle id
CallsOn(c, fn, id) == {k \in DOMAIN c : c[k].fn = fn /\ c[k].id = id}

\* the handles of table t that instance h owns
OwnedBy(t, h) == {x \in DOMAIN State[t] : State[t][x].instance = h}

\* the instance a returned handle was created under, itself for an instance
RECURSIVE RootOf(_)
RootOf(id) ==
    IF \A e \in Range(issued) : e.id # id THEN 0
    ELSE LET e == CHOOSE x \in Range(issued) : x.id = id
         IN IF e.kind = "g_instances" THEN id
            ELSE IF e.owner.instance # 0 THEN e.owner.instance
            ELSE RootOf(e.owner.device)

\* the step is a call of op
Called(op) == last'.op = op

\* C3: destroyInstance on a live instance tears down each device and each
\* surface the instance owns exactly once, no device after a surface, every
\* swapchain before its surface, and releases the backend instance last.
C3_DestroyInstanceOrder ==
    [][(Called("destroyInstance") /\ last'.args[1] \in DOMAIN g_instances) =>
          LET h == last'.args[1]
              c == calls'
          IN /\ last'.result = "ok"
             /\ \A d \in OwnedBy("devices", h) :
                   Cardinality(CallsOn(c, "vkDestroyDevice", d)) = 1
             /\ \A f \in OwnedBy("surfaces", h) :
                   Cardinality(CallsOn(c, "destroySurfaceKHR", f)) = 1
             /\ \A j, k \in DOMAIN c :
                   (c[j].fn = "destroySurfaceKHR" /\ c[k].fn = "vkDestroyDevice") => k < j
             /\ \A x \in DOMAIN swapchains :
                   swapchains[x].surface \in OwnedBy("surfaces", h) =>
                      \E j \in CallsOn(c, "vkDestroySwapchainKHR", x) :
                         \A k \in CallsOn(c, "destroySurfaceKHR", swapchains[x].surface) :
                            j < k
             /\ CallsOn(c, "vkDestroyInstance", h) = {Len(c)}]_vars

\* C4: destroyInstance on a handle that is not registered raises no error,
\* makes no backend call and leaves every handle table as it was.
C4_DestroyInstanceIdempotent ==
    [][(Called("destroyInstance") /\ last'.args[1] \notin DOMAIN g_instances) =>
          /\ last'.result = "ok"
          /\ calls' = <<>>
          /\ backend' = backend
          /\ Tables(State)' = Tables(State)]_vars

\* destroyInstance was called on an instance destroyed before, others live
C4_Witness ==
    /\ last.op = "destroyInstance" /\ last.result = "ok"
    /\ last.args[1] \in IssuedIds \ DOMAIN g_instances
    /\ calls = <<>>
    /\ devices # <<>>

\* C5: when destroyInstance(h) has returned, h is not registered and no
\* handle created under h resolves; and a destroyAll makes no backend call
\* on an instance that was not registered when it started, nor on anything
\* created under such an instance.
C5_DestroyInstanceLeavesNothing ==
    [][/\ (Called("destroyInstance") /\ last'.result = "ok") =>
             /\ last'.args[1] \notin DOMAIN g_instances'
             /\ \A x \in LiveIds(State)' : RootOf(x) # last'.args[1]
       /\ (Called("destroyAll") /\ last'.result = "ok") =>
             \A k \in DOMAIN calls' : RootOf(calls'[k].id) \in DOMAIN g_instances]_vars

\* destroyInstance returned for an instance that had a swapchain
C5_Witness ==
    /\ last.op = "destroyInstance" /\ last.result = "ok"
    /\ \E e \in IssuedOf("swapchains") : RootOf(e.id) = last.args[1]
    /\ CallsOn(calls, "vkDestroyInstance", last.args[1]) # {}

\* C6: destroyAll returns with the instance registry empty and every
\* instance that was registered torn down exactly once.
C6_DestroyAllTearsDownEach ==
    [][Called("destroyAll") =>
          /\ last'.result = "ok"
          /\ g_instances' = <<>>
          /\ \A i \in DOMAIN g_instances :
                Cardinality(CallsOn(calls', "vkDestroyInstance", i)) = 1]_vars

DestroyOps ==
    {"destroySwapchain", "destroySurface", "destroyDevice", "destroyInstance",
     "destroyCommandEncoder", "destroyCommandBuffer"}

InvalidHandle ==
    {"Invalid instance handle", "Invalid device handle", "Invalid surface handle",
     "Invalid swapchain handle"}

\* C7: a destroy operation whose handle does not resolve reports no error
\* and leaves every handle table as it was.
C7_DestroyIsNoOpOnStale ==
    [][\A op \in DestroyOps :
          (Called(op) /\ last'.args[Len(last'.args)] \notin LiveIds(State)) =>
             /\ last'.result = "ok"
             /\ Tables(State)' = Tables(State)]_vars

---------------------------------------------------------------------------
(* Properties of the use operations. *)

UseOps ==
    {"acquireFrame", "presentFrame", "submit", "beginRenderPass", "setPipeline",
     "setVertexBuffer", "setIndexBuffer", "setBindGroup", "draw", "drawIndexed",
     "finish"}

InvalidUseHandle ==
    InvalidHandle
        \cup {"Invalid command encoder handle", "Invalid command buffer handle",
              "Invalid pipeline handle", "Invalid texture view handle",
              "Invalid buffer handle", "Invalid bind group handle"}

\* every handle of the call op(a) resolves, each under the parents passed
\* with it, in the state before the call
Resolves(op, a) ==
    LET d == a[2]
        device == hasInstance(State, a[1]) /\ hasDevice(State, a[1], d)
        encoder == device /\ hasResource(State, "commandEncoders", d, a[3])
        swapchain == /\ device
                     /\ hasSurface(State, a[1], a[3])
                     /\ hasSwapchain(State, a[3], a[4])
    IN CASE op \in {"draw", "drawIndexed", "finish"} -> encoder
         [] op = "setPipeline" -> encoder /\ hasResource(State, "renderPipelines", d, a[4])
         [] op \in {"setVertexBuffer", "setIndexBuffer"} ->
               encoder /\ hasResource(State, "buffers", d, a[4])
         [] op = "setBindGroup" -> encoder /\ hasResource(State, "bindGroups", d, a[4])
         [] op = "beginRenderPass" ->
               /\ encoder
               /\ hasResource(State, "renderPipelines", d, a[4])
               /\ hasResource(State, "textureViews", d, a[5])
         [] op = "submit" -> device /\ hasResource(State, "commandBuffers", d, a[3])
         [] op = "acquireFrame" -> swapchain
         [] op = "presentFrame" ->
               swapchain /\ hasResource(State, "commandBuffers", d, a[5])

\* C8: a use operation given a handle that does not resolve throws an
\* invalid-handle error, makes no backend call and leaves every table, with
\* the synchronization fields of swapchains and the fields of encoders, and
\* the handle counter as they were.
C8_UseFailsOnStaleHandle ==
    [][(last'.op \in UseOps /\ ~Resolves(last'.op, last'.args)) =>
          /\ last'.result \in InvalidUseHandle
          /\ last'.ret = <<>>
          /\ Tables(State)' = Tables(State)
          /\ g_nextId' = g_nextId
          /\ backend' = backend
          /\ calls' = <<>>]_vars

\* a use operation was refused a handle that had resolved before
C8_Witness ==
    /\ last.op \in UseOps
    /\ last.result \in InvalidUseHandle
    /\ \E k \in DOMAIN last.args : last.args[k] \in IssuedIds \ LiveIds(State)

---------------------------------------------------------------------------
(* Properties of device teardown. *)

\* the step is a destroyDevice that found its device
DeviceTornDown ==
    /\ Called("destroyDevice") /\ last'.result = "ok"
    /\ hasDevice(State, last'.args[1], last'.args[2])

\* the backend calls of the log c that destroy or free an object
Destroys(c) == {k \in DOMAIN c : c[k].fn # "vkDeviceWaitIdle"}

\* C9: a destroyDevice on a device with registered children leaves no
\* backend object of the device behind and destroys or frees none twice.
C9_DestroyDeviceLeaksNothing ==
    [][DeviceTornDown =>
          /\ leaked' = {}
          /\ "double free" \notin faults'
          /\ \A j, k \in Destroys(calls') :
                (calls'[j].t = calls'[k].t /\ calls'[j].id = calls'[k].id) => j = k]_vars

\* every call of the log c made by F1 precedes every call made by F2
Precede(c, F1, F2) == \A j \in F1, k \in F2 : j < k

\* the positions of the log c at which one of the functions fns was called
CallsOf(c, fns) == {k \in DOMAIN c : c[k].fn \in fns}

SwapchainTeardownCalls(c) ==
    CallsOf(c, {"vkDestroyFence", "vkDestroySemaphore", "vkDestroyFramebuffer",
                "vkDestroySwapchainKHR"})
        \cup {k \in CallsOf(c, {"vkDestroyRenderPass"}) : c[k].id \in DOMAIN swapchains}

PipelineTeardownCalls(c) ==
    CallsOf(c, {"vkDestroyPipeline"})
        \cup {k \in CallsOf(c, {"vkDestroyRenderPass"}) : c[k].id \in DOMAIN renderPipelines}

ResourceTeardownCalls(c) ==
    PipelineTeardownCalls(c)
        \cup CallsOf(c, {"vkDestroyPipelineLayout", "vkDestroyDescriptorSetLayout",
                         "vkDestroySampler", "vkDestroyImageView", "vkDestroyImage",
                         "vkFreeMemory", "vkDestroyBuffer"})

PoolTeardownCalls(c) == CallsOf(c, {"vkDestroyDescriptorPool", "vkDestroyCommandPool"})

\* C10: destroyDevice waits for the device to be idle first, then destroys
\* swapchains before device resources, pipelines before pipeline layouts
\* before bind-group layouts, texture views before textures, every resource
\* before the two pools, and the logical device last.
C10_DestroyDeviceOrder ==
    [][DeviceTornDown =>
          LET c == calls'
              d == last'.args[2]
          IN /\ c[1].fn = "vkDeviceWaitIdle" /\ c[1].id = d
             /\ Precede(c, SwapchainTeardownCalls(c), ResourceTeardownCalls(c))
             /\ Precede(c, PipelineTeardownCalls(c), CallsOf(c, {"vkDestroyPipelineLayout"}))
             /\ Precede(c, CallsOf(c, {"vkDestroyPipelineLayout"}),
                        CallsOf(c, {"vkDestroyDescriptorSetLayout"}))
             /\ Precede(c, CallsOf(c, {"vkDestroyImageView"}), CallsOf(c, {"vkDestroyImage"}))
             /\ Precede(c, SwapchainTeardownCalls(c) \cup ResourceTeardownCalls(c),
                        PoolTeardownCalls(c))
             /\ Cardinality(PoolTeardownCalls(c)) = 2
             /\ CallsOn(c, "vkDestroyDevice", d) = {Len(c)}]_vars

\* a device with a swapchain and one resource of every kind was torn down
C10_Witness ==
    /\ last.op = "destroyDevice" /\ last.result = "ok"
    /\ \A fn \in {"vkDestroySwapchainKHR", "vkDestroyPipeline", "vkDestroyPipelineLayout",
                  "vkDestroyDescriptorSetLayout", "vkDestroySampler", "vkDestroyImageView",
                  "vkDestroyImage", "vkDestroyBuffer", "vkDestroyDevice"} :
          CallsOf(calls, {fn}) # {}

---------------------------------------------------------------------------
(* Properties of swapchain teardown. *)

\* the backend objects that createSwapchain made for the registered
\* swapchain c: those the VulkanSwapchain holds, and the image view and the
\* framebuffer of each of its images
SwapchainBackend(c) ==
    {o \in backend :
        \/ o.t \in SwapchainObjects /\ o.id = c
        \/ o.t \in {"VkImageView", "VkFramebuffer"}
              /\ o.id \in Range(swapchains[c].textureViewIds)}

\* the swapchain c is registered after the step exactly as before it, with
\* its backend objects and the table entries of its images
SwapchainKept(c) ==
    /\ c \in DOMAIN swapchains' /\ swapchains'[c] = swapchains[c]
    /\ SwapchainBackend(c) \subseteq backend'
    /\ \A x \in Range(swapchains[c].textureIds) :
          x \in DOMAIN textures' /\ textures'[x] = textures[x]
    /\ \A x \in Range(swapchains[c].textureViewIds) :
          x \in DOMAIN textureViews' /\ textureViews'[x] = textureViews[x]

\* C11: destroyDevice(i, d) destroys every swapchain of the instance built
\* on d, and leaves every swapchain built on another device registered, with
\* its backend objects and its texture and view entries untouched.
C11_DestroyDeviceOwnSwapchainsOnly ==
    [][DeviceTornDown =>
          \A c \in DOMAIN swapchains :
             RootOf(c) = last'.args[1] =>
                IF swapchains[c].device = last'.args[2]
                THEN c \notin DOMAIN swapchains'
                ELSE SwapchainKept(c)]_vars

\* the step is a destroySurface that found its surface
SurfaceTornDown ==
    /\ Called("destroySurface") /\ last'.result = "ok"
    /\ hasSurface(State, last'.args[1], last'.args[2])

\* C12: destroySurface on a live surface destroys each of its swapchains
\* through the device the swapchain was built on, then the backend surface,
\* then releases the window; the surface and its swapchains resolve no more.
C12_DestroySurfaceOrder ==
    [][SurfaceTornDown =>
          LET f == last'.args[2]
              c == calls'
              cs == {x \in DOMAIN swapchains : swapchains[x].surface = f}
          IN /\ \A x \in cs :
                   /\ Cardinality(CallsOn(c, "vkDestroySwapchainKHR", x)) = 1
                   /\ \A k \in DOMAIN c :
                         (c[k].id = x /\ c[k].t \in SwapchainObjects)
                            => c[k].dev = swapchains[x].device
                   /\ x \notin DOMAIN swapchains'
             /\ "wrong device" \notin faults'
             /\ CallsOn(c, "destroySurfaceKHR", f) = {Len(c) - 1}
             /\ CallsOn(c, "ANativeWindow_release", f) = {Len(c)}
             /\ SwapchainTeardownCalls(c) \subseteq 1..(Len(c) - 2)
             /\ f \notin DOMAIN surfaces']_vars

\* a surface with swapchains on two devices was torn down
C12_Witness ==
    /\ last.op = "destroySurface" /\ last.result = "ok"
    /\ \E j, k \in CallsOf(calls, {"vkDestroySwapchainKHR"}) : calls[j].dev # calls[k].dev

\* the step is a destroySwapchain that found its swapchain
SwapchainTornDown ==
    /\ Called("destroySwapchain") /\ last'.result = "ok"
    /\ hasSwapchain(State, last'.args[3], last'.args[4])

\* C13: after destroySwapchain on a live swapchain, whichever device of the
\* instance the caller passed, the swapchain handle resolves no more and
\* neither do the texture and view handles of its images.
C13_DestroySwapchainUnregistersImages ==
    [][SwapchainTornDown =>
          LET w == swapchains[last'.args[4]]
          IN /\ last'.args[4] \notin DOMAIN swapchains'
             /\ \A x \in Range(w.textureIds) : x \notin DOMAIN textures'
             /\ \A x \in Range(w.textureViewIds) : x \notin DOMAIN textureViews']_vars

\* C14: destroySwapchain destroys every backend object createSwapchain made
\* for the swapchain exactly once: fence, semaphores, framebuffers, render
\* pass, image views and the swapchain object.
C14_SwapchainTeardownComplete ==
    [][SwapchainTornDown =>
          \A o \in SwapchainBackend(last'.args[4]) :
             /\ o \notin backend'
             /\ Cardinality({k \in Destroys(calls') :
                                calls'[k].t = o.t /\ calls'[k].id = o.id}) = 1]_vars

---------------------------------------------------------------------------
(* Properties of resize and of the frame cycle. *)

OutOfDate == "Swapchain out of date, recreation required"

SurfaceOutdated == "Swapchain presentation failed; surface outdated"

\* the handles issued by the last n calls of storeObject
IssuedLast(n) == {issued[k].id : k \in (Len(issued) - n + 1)..Len(issued)}

\* C15: right after a resizeSwapchain that succeeded, an acquireFrame on the
\* same swapchain to which the backend grants image k does not block, and
\* returns k with the k-th texture and view handles that the resize
\* registered, none of which was issued before the resize.
C15_AcquireAfterResize ==
    (last.op = "resizeSwapchain" /\ last.result = "ok") =>
       LET a == last.args
           w == swapchains[a[4]]
           n == Len(w.textureIds)
       IN \A k \in 0..(n - 1) :
             LET v == acquireFrame(State, a[1], a[2], a[3], a[4], k, "ok").last
             IN /\ v.result = "ok"
                /\ v.ret = <<k, w.textureIds[k + 1], w.textureViewIds[k + 1]>>
                /\ {v.ret[2], v.ret[3]} \subseteq IssuedLast(2 * n)
                /\ v.ret[2] \in DOMAIN textures /\ v.ret[3] \in DOMAIN textureViews

\* a frame of the rebuilt swapchain was acquired: its handles are younger
\* than the swapchain handle
C15_Witness ==
    /\ last.op = "acquireFrame" /\ last.result = "ok"
    /\ last.ret[2] > last.args[4] /\ last.ret[3] > last.args[4]

\* the registered swapchain c has all of its parts
SwapchainComplete(c) ==
    LET w == swapchains[c] IN
    /\ \A t \in SwapchainObjects : Obj(t, c, w.device) \in backend
    /\ Len(w.textureIds) >= 1 /\ Len(w.textureViewIds) = Len(w.textureIds)
    /\ \A k \in DOMAIN w.textureIds :
          /\ hasResource(State, "textures", w.device, w.textureIds[k])
          /\ hasResource(State, "textureViews", w.device, w.textureViewIds[k])
          /\ textureViews[w.textureViewIds[k]].texture = w.textureIds[k]
          /\ Obj("VkImageView", w.textureViewIds[k], w.device) \in backend
          /\ Obj("VkFramebuffer", w.textureViewIds[k], w.device) \in backend

TeardownStep ==
    /\ last'.op \in {"destroySwapchain", "resizeSwapchain"}
    /\ last'.result \notin InvalidHandle
    /\ hasSwapchain(State, last'.args[3], last'.args[4])

\* C17: swapchain teardown leaves what the device owns as it was: the two
\* pools, every table but those of swapchains, textures and views, and every
\* texture and view that the swapchain did not register.
C17_TeardownLeavesDeviceResources ==
    [][TeardownStep =>
          LET c == last'.args[4]
              w == swapchains[c]
          IN /\ \A t \in TableNames \ {"swapchains", "textures", "textureViews"} :
                   Tables(State)'[t] = Tables(State)[t]
             /\ \A x \in DOMAIN textures \ Range(w.textureIds) :
                   x \in DOMAIN textures' /\ textures'[x] = textures[x]
             /\ \A x \in DOMAIN textureViews \ Range(w.textureViewIds) :
                   x \in DOMAIN textureViews' /\ textureViews'[x] = textureViews[x]
             /\ (backend \ SwapchainBackend(c)) \subseteq backend'
             /\ \A k \in DOMAIN calls' :
                   calls'[k].fn = "vkDeviceWaitIdle"
                      \/ \E o \in SwapchainBackend(c) :
                            o.t = calls'[k].t /\ o.id = calls'[k].id]_vars

\* a swapchain was torn down on a device that has pipelines, buffers and a
\* texture and a view of its own
C17_Witness ==
    /\ last.op \in {"destroySwapchain", "resizeSwapchain"} /\ last.result = "ok"
    /\ CallsOf(calls, {"vkDestroySwapchainKHR"}) # {}
    /\ renderPipelines # <<>> /\ buffers # <<>>
    /\ textures # <<>> /\ textureViews # <<>>

\* C18: a second acquireFrame on a swapchain, called after a first that
\* returned a frame and before any submit or present, does not wedge: it
\* does not wait on a fence that nothing can signal any more.  ("blocked" is
\* that wait: the fence was reset by the first call, no submission naming it
\* is pending, and the waiting call holds the registry lock a submit needs.)
C18_SecondAcquireProceeds ==
    [][(/\ Called("acquireFrame")
        /\ last.op = "acquireFrame" /\ last.result = "ok"
        /\ last'.args = last.args) =>
          /\ last'.result # "blocked"
          /\ last'.args[4] \in DOMAIN swapchains'
          /\ swapchains'[last'.args[4]].textureIds = swapchains[last.args[4]].textureIds
          /\ swapchains'[last'.args[4]].textureViewIds
                = swapchains[last.args[4]].textureViewIds]_vars

\* C19: when the backend reports out-of-date or suboptimal on acquisition,
\* acquireFrame throws the out-of-date error, returns no frame and has asked
\* the backend for an image once.
C19_AcquireOutOfDate ==
    \A a \in SwapchainArgs, outcome \in {"outOfDate", "suboptimal"} :
       (/\ Running /\ Resolves("acquireFrame", a)
        /\ swapchains[a[4]].inFlightFence = "signaled") =>
          LET v == acquireFrame(State, a[1], a[2], a[3], a[4], 0, outcome)
          IN /\ v.last.result = OutOfDate
             /\ v.last.ret = <<>>
             /\ Cardinality(CallsOf(v.calls, {"acquireNextImageKHR"})) = 1

\* an acquireFrame threw out-of-date on a suboptimal report: the backend had
\* handed out the image
C19_Witness ==
    /\ last.op = "acquireFrame" /\ last.result = OutOfDate /\ last.ret = <<>>
    /\ swapchains[last.args[4]].acquired # {}

\* C20: when the backend reports out-of-date or suboptimal on present,
\* presentFrame throws an error that differs from the one of every other
\* present failure, the swapchain stays registered, and a resize followed by
\* an acquire then succeeds.
C20_PresentOutOfDateRecoverable ==
    \A a \in SwapchainArgs, cb \in DOMAIN commandBuffers,
       outcome \in {"outOfDate", "suboptimal"} :
       (Running /\ Resolves("presentFrame", a \o <<cb>>)) =>
          LET p == vkSwapchainPresentFrame(State, a[1], a[2], a[3], a[4], cb, 0, outcome)
              e == vkSwapchainPresentFrame(State, a[1], a[2], a[3], a[4], cb, 0, "error")
              r == resizeSwapchain(p, a[1], a[2], a[3], a[4], 1, "ok")
              v == acquireFrame(r, a[1], a[2], a[3], a[4], 0, "ok")
          IN /\ p.last.result = SurfaceOutdated
             /\ e.last.result \notin {"ok", p.last.result}
             /\ a[4] \in DOMAIN p.swapchains
             /\ r.last.result = "ok"
             /\ v.last.result = "ok"
             /\ v.last.ret = <<0, r.swapchains[a[4]].textureIds[1],
                               r.swapchains[a[4]].textureViewIds[1]>>

\* a presentFrame reported an outdated surface
C20_Witness ==
    /\ last.op = "presentFrame" /\ last.result = SurfaceOutdated
    /\ last.args[4] \in DOMAIN swapchains

---------------------------------------------------------------------------
(* Properties of frames in flight and of submission. *)

\* the step signals the in-flight fence of swapchain c, which was unsignaled
Signals(c) ==
    /\ c \in DOMAIN swapchains /\ c \in DOMAIN swapchains'
    /\ swapchains[c].inFlightFence = "unsignaled"
    /\ swapchains'[c].inFlightFence = "signaled"

\* C21: a successful acquireFrame finds the in-flight fence of its swapchain
\* signaled and leaves it unsignaled, and an unsignaled fence becomes
\* signaled only by a successful submit of a command buffer that targets
\* that swapchain, or by a rebuild of the swapchain: between two successful
\* acquires on one swapchain there is such a submit or a rebuild.
C21_OneFrameInFlight ==
    [][/\ (Called("acquireFrame") /\ last'.result = "ok") =>
             /\ swapchains[last'.args[4]].inFlightFence = "signaled"
             /\ swapchains'[last'.args[4]].inFlightFence = "unsignaled"
       /\ \A c \in DOMAIN swapchains :
             Signals(c) =>
                \/ /\ Called("submit") /\ last'.result = "ok"
                   /\ commandBuffers[last'.args[3]].swapchain = c
                \/ Called("resizeSwapchain")]_vars

\* a second frame was acquired after a submit had signaled the fence
C21_Witness ==
    /\ last.op = "acquireFrame" /\ last.result = "ok"
    /\ swapchains[last.args[4]].renderFinishedSemaphore

\* the swapchains of the surface of c, other than c, that hold a frame that
\* was acquired and not presented
SiblingsHoldingFrame(c) ==
    {x \in DOMAIN swapchains \ {c} :
        /\ swapchains[x].surface = swapchains[c].surface
        /\ swapchains[x].acquired # {}}

\* C22: an acquireFrame on a swapchain does not succeed while another
\* swapchain of the same surface holds a frame that was acquired and neither
\* presented nor abandoned.
C22_OneSwapchainPerSurfaceInFlight ==
    [][(Called("acquireFrame") /\ last'.result = "ok") =>
          SiblingsHoldingFrame(last'.args[4]) = {}]_vars

\* C23: a submit of a command buffer that targets a swapchain, called with
\* the swapchain flag, waits on the image-available semaphore of that
\* swapchain and signals its render-finished semaphore and its in-flight
\* fence, reading them from a swapchain that is still there; any other
\* submit leaves every semaphore and fence as it was.
C23_SubmitSynchronisation ==
    \A a \in DeviceArgs, targetsSwapchain \in BOOLEAN, ub \in BadPointer :
       \A cb \in Res("commandBuffers", a[2]) :
          (Running /\ Resolves("submit", <<a[1], a[2], cb>>)) =>
             LET c == commandBuffers[cb].swapchain
                 v == vkQueueSubmit(State, a[1], a[2], cb, targetsSwapchain, 0, "ok", ub)
             IN IF targetsSwapchain /\ c # 0
                THEN /\ v.last.result = "ok" /\ v.faults = {}
                     /\ c \in DOMAIN v.swapchains
                     /\ ~v.swapchains[c].imageAvailableSemaphore
                     /\ v.swapchains[c].renderFinishedSemaphore
                     /\ v.swapchains[c].inFlightFence = "signaled"
                     /\ \A x \in DOMAIN swapchains \ {c} : v.swapchains[x] = swapchains[x]
                ELSE v.last.result = "ok" /\ v.swapchains = swapchains

---------------------------------------------------------------------------
(* Properties of command encoding. *)

\* the vkFreeCommandBuffers calls of the step that name an allocation the
\* pool no longer holds
FreedAgain ==
    {k \in DOMAIN calls' :
        /\ calls'[k].fn = "vkFreeCommandBuffers"
        /\ Obj("VkCommandBuffer", calls'[k].id, calls'[k].dev) \notin backend}

\* C24: over any sequence of finish, destroyCommandEncoder and
\* destroyCommandBuffer no command-buffer allocation is freed twice: a
\* destroy frees the allocation of its encoder or command buffer only when
\* the pool still holds it.
C24_CommandBufferFreedOnce ==
    [][(Called("destroyCommandEncoder") \/ Called("destroyCommandBuffer")) =>
          /\ FreedAgain = {}
          /\ "double free" \notin faults']_vars

\* C25: a draw or drawIndexed on an encoder that has no current pipeline
\* fails and records no draw call in the command buffer.
C25_DrawNeedsPipeline ==
    [][(/\ Called("draw") \/ Called("drawIndexed")
        /\ Resolves("draw", last'.args)
        /\ commandEncoders[last'.args[3]].currentPipeline = 0) =>
          /\ last'.result # "ok"
          /\ CallsOf(calls', {"vkCmdDraw", "vkCmdDrawIndexed"}) = {}]_vars

---------------------------------------------------------------------------
(* Properties of locking. *)

\* thread t is inside a function that reads or changes the handle tables
InTables(t) == threads[t] # <<>> /\ Head(threads[t]).pc = "tables"

\* C26: no two threads are inside the handle tables at the same time,
\* whichever public entry points they came in through.
C26_TablesOneThreadAtATime ==
    \A t, u \in DOMAIN threads : (InTables(t) /\ InTables(u)) => t = u

---------------------------------------------------------------------------
(* Properties of swapchain geometry and device selection. *)

\* x brought into the interval from lo to hi
Clamped(x, lo, hi) == IF Less(x, lo) THEN lo ELSE IF Less(hi, x) THEN hi ELSE x

\* C27: when the current extent of the surface is the 0xFFFFFFFF sentinel,
\* chooseExtent returns the requested width and height, each clamped into
\* the interval from the minimum to the maximum extent: (800, 600) within
\* (1, 1) and (4096, 4096) gives (800, 600), and (8000, 6000) gives
\* (4096, 4096).  Otherwise it returns the current extent, whatever was
\* requested.
C27_ChooseExtent ==
    /\ last.op = "chooseExtent" =>
          LET caps == last.args[1]
              extent == last.ret[1]
          IN IF caps.currentExtent = [width |-> UINT32_MAX, height |-> UINT32_MAX]
             THEN /\ extent.width = Clamped(last.args[2], caps.minImageExtent.width,
                                            caps.maxImageExtent.width)
                  /\ extent.height = Clamped(last.args[3], caps.minImageExtent.height,
                                             caps.maxImageExtent.height)
             ELSE extent = caps.currentExtent
    /\ LET caps == [currentExtent |-> [width |-> UINT32_MAX, height |-> UINT32_MAX],
                    minImageExtent |-> Extent2D(1, 1),
                    maxImageExtent |-> Extent2D(4096, 4096)]
       IN /\ chooseExtent(caps, uint32_t(800), uint32_t(600)) = Extent2D(800, 600)
          /\ chooseExtent(caps, uint32_t(8000), uint32_t(6000)) = Extent2D(4096, 4096)

\* a requested extent was cut down to the maximum on one axis and raised to
\* the minimum on the other
C27_Witness ==
    /\ last.op = "chooseExtent"
    /\ last.args[1].currentExtent.width = UINT32_MAX
    /\ Less(last.ret[1].width, last.args[2])
    /\ Less(last.args[3], last.ret[1].height)

\* C28 as stated: selectImageCount returns a count that is at least
\* minImageCount and, when maxImageCount > 0, at most maxImageCount, for all
\* 32-bit capability values.
C28_ImageCountWithinBounds ==
    last.op = "selectImageCount" =>
       /\ ~Less(last.ret[1], last.args[1].minImageCount)
       /\ last.args[1].maxImageCount # uint32_t(0) =>
             ~Less(last.args[1].maxImageCount, last.ret[1])

\* C28, amended: selectImageCount returns minImageCount + 1 in 32-bit
\* arithmetic (0 for minImageCount = 0xFFFFFFFF), or maxImageCount when
\* maxImageCount > 0 and is less than that; {min=2, max=3} gives 3 and
\* {min=2, max=0} gives 3.  The result is at most maxImageCount when
\* maxImageCount > 0, and it is at least minImageCount when minImageCount <
\* 0xFFFFFFFF and minImageCount does not exceed a non-zero maxImageCount.
C28_SelectImageCount ==
    /\ last.op = "selectImageCount" =>
          LET lo == last.args[1].minImageCount
              hi == last.args[1].maxImageCount
              count == last.ret[1]
              zero == uint32_t(0)
          IN /\ hi # zero => ~Less(hi, count)
             /\ (lo # UINT32_MAX /\ (hi = zero \/ ~Less(hi, lo))) => ~Less(count, lo)
             /\ (lo # UINT32_MAX /\ (hi = zero \/ Less(lo, hi))) =>
                   /\ Less(lo, count)
                   /\ \A c \in Counts : ~(Less(lo, c) /\ Less(c, count))
             /\ (lo # UINT32_MAX /\ hi # zero /\ ~Less(lo, hi)) => count = hi
             /\ lo = UINT32_MAX => count = zero
    /\ selectImageCount([minImageCount |-> uint32_t(2), maxImageCount |-> uint32_t(3)])
          = uint32_t(3)
    /\ selectImageCount([minImageCount |-> uint32_t(2), maxImageCount |-> uint32_t(0)])
          = uint32_t(3)

\* a count was cut down to maxImageCount
C28_Witness ==
    /\ last.op = "selectImageCount"
    /\ last.args[1].maxImageCount # uint32_t(0)
    /\ last.args[1].minImageCount = last.args[1].maxImageCount
    /\ last.ret[1] = last.args[1].maxImageCount

\* the physical devices of the list that have a graphics-capable queue
\* family that presents to the first surface when there is one
Qualifying(physicalDevices, hasSurfaces) ==
    {k \in DOMAIN physicalDevices :
        \E i \in DOMAIN physicalDevices[k].queueFamilies :
           /\ physicalDevices[k].queueFamilies[i].graphics
           /\ hasSurfaces => physicalDevices[k].queueFamilies[i].present}

\* C29: createDevice fails when no physical device exists; otherwise it
\* selects the first physical device that has a graphics-capable queue
\* family presenting to the first surface (when the instance has one), with
\* the first such family, and physical device 0 with queue family 0 when no
\* device qualifies.
C29_DeviceSelection ==
    last.op = "selectPhysicalDevice" =>
       LET physicalDevices == last.args[1]
           hasSurfaces == last.args[2]
           Q == Qualifying(physicalDevices, hasSurfaces)
       IN IF physicalDevices = <<>> THEN last.result # "ok"
          ELSE /\ last.result = "ok"
               /\ IF Q = {} THEN last.ret = <<0, 0>>
                  ELSE /\ last.ret[1] + 1 \in Q
                       /\ \A k \in Q : last.ret[1] + 1 <= k
                       /\ LET family == physicalDevices[last.ret[1] + 1]
                                           .queueFamilies[last.ret[2] + 1]
                          IN family.graphics /\ (hasSurfaces => family.present)

\* C30: a texture registered for a swapchain image owns neither image nor
\* memory, and no teardown destroys its image or frees memory for it; a
\* texture created by createTexture has its image destroyed and its memory
\* freed exactly once.  Stated on the step that unregisters the texture.
C30_TextureOwnership ==
    [][last'.result # "crash" =>
          \A x \in DOMAIN textures \ DOMAIN textures' :
             LET n(fn) == Cardinality({k \in DOMAIN calls' :
                                          calls'[k].fn = fn /\ calls'[k].id = x})
             IN IF textures[x].ownsImage \/ textures[x].ownsMemory
                THEN n("vkDestroyImage") = 1 /\ n("vkFreeMemory") = 1
                ELSE n("vkDestroyImage") = 0 /\ n("vkFreeMemory") = 0]_vars

---------------------------------------------------------------------------
(* Properties of the registered swapchains. *)

\* C31: every registered swapchain is under a registered surface of a
\* registered instance; its device is a registered device of that same
\* instance, and its per-image texture and view handles resolve in the
\* tables of that device.
C31_SwapchainHierarchy ==
    \A c \in DOMAIN swapchains :
       LET w == swapchains[c] IN
       /\ w.surface \in DOMAIN surfaces
       /\ surfaces[w.surface].instance \in DOMAIN g_instances
       /\ w.device \in DOMAIN devices
       /\ devices[w.device].instance = surfaces[w.surface].instance
       /\ \A k \in DOMAIN w.textureIds :
             /\ w.textureIds[k] \in DOMAIN textures
             /\ textures[w.textureIds[k]].device = w.device
       /\ \A k \in DOMAIN w.textureViewIds :
             /\ w.textureViewIds[k] \in DOMAIN textureViews
             /\ textureViews[w.textureViewIds[k]].device = w.device

\* one swapchain of a surface was destroyed and another is still registered,
\* on an instance with two devices
C31_Witness ==
    /\ last.op = "destroySwapchain" /\ last.result = "ok"
    /\ swapchains # <<>>
    /\ Cardinality(DOMAIN devices) = 2

\* C32: a swapchain that createSwapchain registers has one texture handle,
\* one view handle and one framebuffer per swapchain image, one
\* image-available semaphore, one render-finished semaphore and one in-flight
\* fence, and the fence starts signaled: the first acquireFrame does not
\* block.
C32_SwapchainParts ==
    \A a \in ParentArgs, n \in 1..(MaxImages + 1) :
       LET t == createSwapchain(State, a[1], a[2], a[3], n, "ok")
           made == t.backend \ backend
       IN (Running /\ t.last.result = "ok") =>
             LET c == t.last.ret[1]
                 w == t.swapchains[c]
                 v == acquireFrame(t, a[1], a[2], a[3], c, 0, "ok")
             IN /\ c \notin DOMAIN swapchains
                /\ Len(w.textureIds) = n /\ Len(w.textureViewIds) = n
                /\ Cardinality(Range(w.textureIds)) = n
                /\ Cardinality(Range(w.textureViewIds)) = n
                /\ Cardinality({o \in made : o.t = "VkFramebuffer"}) = n
                /\ Cardinality({o \in made : o.t = "VkImageView"}) = n
                /\ \A x \in {"VkSemaphore.imageAvailable", "VkSemaphore.renderFinished",
                             "VkFence"} :
                      {o \in made : o.t = x} = {Obj(x, c, a[2])}
                /\ w.inFlightFence = "signaled"
                /\ v.last.result = "ok"

\* createSwapchain has registered a swapchain
C32_Witness ==
    /\ last.op = "createSwapchain" /\ last.result = "ok"
    /\ last.ret[1] \in DOMAIN swapchains
    /\ swapchains[last.ret[1]].inFlightFence = "signaled"

\* the positions of the call log c at which an object that swapchain w,
\* registered as x, holds is destroyed
DestroysOf(c, x, w) ==
    {k \in CallsOf(c, {"vkDestroyFence", "vkDestroySemaphore", "vkDestroyFramebuffer",
                       "vkDestroyRenderPass", "vkDestroySwapchainKHR"}) :
        \/ c[k].t \in SwapchainObjects /\ c[k].id = x
        \/ c[k].t = "VkFramebuffer" /\ c[k].id \in Range(w.textureViewIds)}

\* C33: in a swapchain teardown, every backend destroy call on a resource of
\* the swapchain (fence, semaphores, framebuffers, render pass, swapchain
\* object) comes after a wait for the device that owns the swapchain to be
\* idle.
C33_IdleBeforeSwapchainTeardown ==
    [][last'.result # "crash" =>
          \A x \in DOMAIN swapchains :
             \A k \in DestroysOf(calls', x, swapchains[x]) :
                \E j \in CallsOn(calls', "vkDeviceWaitIdle", swapchains[x].device) : j < k]_vars

---------------------------------------------------------------------------
(* Properties of failing creates. *)

\* the entry point that left state t threw, returned no handle and left the
\* handle tables as they are now
Aborted(t) ==
    /\ t.last.result # "ok"
    /\ t.last.ret = <<>>
    /\ Tables(t) = Tables(State)

\* C34: a create that fails on a backend call returns no handle and leaves
\* every handle table as it was; a createSwapchain that fails at an image
\* view, a framebuffer, a semaphore or the fence leaves no texture or view
\* entry in the tables of the device and no swapchain on the surface.
C34_FailedCreateChangesNothing ==
    Running =>
       /\ Aborted(createInstance(State, "instance"))
       /\ \A i \in InstanceArgs :
             /\ \A outcome \in {"window", "surface"} :
                   Aborted(createSurface(State, i, outcome))
             /\ \A outcome \in {"noDevice", "device", "commandPool", "descriptorPool"} :
                   Aborted(createDevice(State, i, outcome))
       /\ \A a \in DeviceArgs :
             /\ \A outcome \in {"object", "memory"} :
                   /\ Aborted(vkCreateBuffer(State, a[1], a[2], outcome))
                   /\ Aborted(vkCreateTexture(State, a[1], a[2], outcome))
             /\ Aborted(vkCreateShaderModule(State, a[1], a[2], "shaderModule"))
             /\ Aborted(vkCreateSampler(State, a[1], a[2], "sampler"))
             /\ Aborted(vkCreateCommandEncoder(State, a[1], a[2], "allocate"))
       /\ \A a \in ParentArgs, n \in 1..(MaxImages + 1),
             outcome \in {"swapchain", "imageView", "fence"} :
             Aborted(createSwapchain(State, a[1], a[2], a[3], n, outcome))

---------------------------------------------------------------------------
(* Properties of finished command buffers. *)

\* the swapchain a render pass on view v targets: the one that has v among
\* the views of its images when the caller says the target is a swapchain
\* image, and none (0) otherwise
Target(v, isSwapchain) ==
    LET of == {c \in DOMAIN swapchains : v \in Range(swapchains[c].textureViewIds)}
    IN IF isSwapchain /\ of # {} THEN CHOOSE c \in of : TRUE ELSE 0

---------------------------------------------------------------------------
(* Properties of calls that do not return. *)

\* the failures of acquireFrame that come from the backend
AcquireFailures == {OutOfDate, "Failed to acquire swapchain image"}

LocksAgain(t) ==
    /\ threads[t] # <<>>
    /\ Head(threads[t]).pc = "enter" /\ Head(threads[t]).fn \in Locking
    /\ g_registryMutex = t

\* C37: no entry point tries to take the registry lock, which is not
\* recursive, while its thread already holds it: a JNI export that takes the
\* lock and then calls a kreekt::vk function does not wait for itself.
C37_NoSelfDeadlock == \A t \in DOMAIN threads : ~LocksAgain(t)

---------------------------------------------------------------------------
(* Properties of the pointers that objects keep to each other. *)

\* C38: whenever a submit reads the swapchain that a finished command buffer
\* refers to, that swapchain is still registered: no submit after a
\* destroySwapchain, destroySurface or destroyDevice uses the semaphores or
\* the fence of a destroyed swapchain.
C38_SubmitSwapchainLive ==
    [][Called("submit") =>
          /\ last'.result # "crash"
          /\ "use after free" \notin faults']_vars

\* C39: setBindGroup reads the pipeline layout only through a pipeline that
\* is set: called on an encoder whose current pipeline is null (neither
\* beginRenderPass nor setPipeline has run on it), it fails cleanly, with no
\* null dereference and no call to vkCmdBindDescriptorSets.
C39_SetBindGroupNeedsPipeline ==
    [][(/\ Called("setBindGroup")
        /\ last'.args[3] \in DOMAIN commandEncoders
        /\ last'.args[4] \in DOMAIN bindGroups
        /\ commandEncoders[last'.args[3]].currentPipeline = 0)
          => /\ last'.result \notin {"ok", "crash"}
             /\ faults' = faults
             /\ calls' = calls]_vars

\* C40: a render-pass encoder that is still recording has its command
\* encoder registered, so that the endRenderPass which reads the command
\* buffer through it reads a live encoder.
C40_RecordingPassHasEncoder ==
    \A rp \in DOMAIN renderPassEncoders :
       renderPassEncoders[rp].recording =>
          renderPassEncoders[rp].encoder \in DOMAIN commandEncoders

====
